---------------------------- MODULE Spec2Model ----------------------------
(***************************************************************************)
(* Gorth: a stack language.  The execution engine (type Gorth: ExecStack,  *)
(* VariableMap, StrictMode, MaxStackSize) and its operator methods, as a   *)
(* state machine over the tokens ExecuteProgram dispatches and the public  *)
(* Push / Pop / Peek calls (Spec); and main, which lexes the input with    *)
(* Tokenize, one unit at a time, hands the tokens and the variable table   *)
(* to a new engine and runs ExecuteProgram on them (MainSpec, inputs of at *)
(* most MaxParts units); and Tokenize alone on short inputs (at most       *)
(* MaxLexParts units) drawn from a wider vocabulary (LexSpec); and main on  *)
(* inputs of at most MaxRunParts units with its loop running on to the end *)
(* (RunSpec, weakly fair).                                                 *)
(*                                                                         *)
(* Values.  A StackElement is [Type, Value].  Type is one of the Go Type   *)
(* constants, written as strings.  Value is                                *)
(*   Int        a Go int, kept small (|v| <= MaxAbs),                      *)
(*   Float      a float64 kept as a whole number of halves: 3 is 1.5,      *)
(*   String     a Go string,                                               *)
(*   Bool       a Go bool,                                                 *)
(*   Identifier the variable's name (a Go string).                         *)
(* A result the value domain cannot hold (an int beyond MaxAbs, a float    *)
(* that is no whole number of halves or is not finite, a text longer than  *)
(* MaxTextLen) is not explored: the step that would produce it is disabled.*)
(***************************************************************************)
EXTENDS Integers, Sequences, FiniteSets

\* ---------------------------------------------------------------- bounds
MaxStackSize == 3
MaxSteps == 3
MaxAbs == 9
MaxTextLen == 2
MaxParts == 5
MaxLexParts == 3
\* units of a program whose run is followed to its end
MaxRunParts == 4

\* ------------------------------------------------------ the value domain
TInt == "Int"
TString == "String"
TBool == "Bool"
TFloat == "Float"
TOperator == "Operator"
TIdentifier == "Identifier"

Elem(t, v) == [Type |-> t, Value |-> v]

\* the zero value of a Variable's Value field before its first literal
Nil == "<nil>"

Names == {"x", "y"}

LitsOf(t) ==
    CASE t = TInt -> {-3, 0, 2}
      [] t = TFloat -> {0, 3}
      [] t = TString -> {"x", "b"}
      [] t = TBool -> {TRUE, FALSE}
      [] t = TIdentifier -> Names

ValueTypes == {TInt, TFloat, TString, TBool}
PushTypes == ValueTypes \cup {TIdentifier}

\* ------------------------------------------------------------ error kinds
NoErr == "nil"
Panicked == "panic"
Unmodelled == "unmodelled"
StackOverflow == "StackOverflow"
StackUnderflow == "StackUnderflow"
TypeMismatch == "TypeMismatch"
UndeclaredVariable == "UndeclaredVariable"
DivisionByZero == "DivisionByZero"
ConstReassignment == "ConstReassignment"
NotAVariable == "NotAVariable"
UnconsumedStack == "UnconsumedStack"
InvalidToken == "InvalidToken"
InvalidType == "InvalidType"
VariableRedeclared == "VariableRedeclared"

\* --------------------------------------------------------- Go arithmetic
Abs(n) == IF n < 0 THEN -n ELSE n

\* integer division that rounds toward minus infinity
QuotFloor(a, b) == a \div b
\* Go's integer / truncates toward zero; % takes the sign of the dividend
Quot(a, b) ==
    IF (a >= 0) = (b > 0) THEN Abs(a) \div Abs(b) ELSE -(Abs(a) \div Abs(b))

Rem(a, b) == a - b * Quot(a, b)

\* a^k for k >= 0; once beyond the value domain the product is not carried
\* further (the result is then outside the domain whatever k is)
RECURSIVE IPow(_, _)
IPow(a, k) ==
    IF k = 0 THEN 1
    ELSE LET r == IPow(a, k - 1)
         IN  IF Abs(r) > MaxAbs THEN r ELSE a * r

\* float64(i) for a Go int i
ToF(i) == 2 * i

\* float64 results: [ok, v]; ok is FALSE when v is no whole number of halves
\* or not finite
FRes(ok, v) == [ok |-> ok, v |-> v]
FAdd(a, b) == FRes(TRUE, a + b)
FSub(a, b) == FRes(TRUE, a - b)
FMul(a, b) == FRes((a * b) % 2 = 0, Quot(a * b, 2))
FDiv(a, b) ==
    IF b = 0 THEN FRes(FALSE, 0)
    ELSE FRes(Rem(2 * a, b) = 0, Quot(2 * a, b))

\* math.Pow(x, y) on halves, for the exponents 0.0, 1.0 and 2.0
FPow(x, y) ==
    IF y = 0 THEN FRes(TRUE, 2)
    ELSE IF y = 2 THEN FRes(TRUE, x)
    ELSE IF y = 4 THEN FMul(x, x)
    ELSE FRes(FALSE, 0)

\* int(math.Pow(float64(a), float64(b))) for Go ints a, b
IntPow(a, b) ==
    IF b >= 0 THEN FRes(TRUE, IPow(a, b))
    ELSE IF a = 0 THEN FRes(FALSE, 0)
    ELSE IF a = 1 THEN FRes(TRUE, 1)
    ELSE IF a = -1 THEN FRes(TRUE, IF b % 2 = 0 THEN 1 ELSE -1)
    ELSE FRes(TRUE, 0)

\* ----------------------------------------------- results of a method body
\* what the switch of an operator method does after its pops: the error it
\* returns (NoErr for nil, Panicked for a run-time panic) and what it pushes
Out(e, p) == [err |-> e, push |-> p]
Push1(x) == Out(NoErr, <<x>>)
Fail(e) == Out(e, <<>>)
Nothing == Out(NoErr, <<>>)
Panic == Out(Panicked, <<>>)
InInt(v) == Abs(v) <= MaxAbs
InFloat(v) == Abs(v) <= 2 * MaxAbs
InText(v) == Len(v) <= MaxTextLen
PushI(v) == IF InInt(v) THEN Push1(Elem(TInt, v)) ELSE Fail(Unmodelled)
PushB(v) == Push1(Elem(TBool, v))
PushS(v) == IF InText(v) THEN Push1(Elem(TString, v)) ELSE Fail(Unmodelled)
PushF(r) ==
    IF r.ok /\ InFloat(r.v) THEN Push1(Elem(TFloat, r.v)) ELSE Fail(Unmodelled)
PushIR(r) == IF r.ok THEN PushI(r.v) ELSE Fail(Unmodelled)

\* the state a method leaves and the error it returns
Ret(s, vm, e) == [stack |-> s, vars |-> vm, err |-> e]

\* ------------------------------------------------------------ stack basics
Top(s) == s[Len(s)]
Front(s) == SubSeq(s, 1, Len(s) - 1)

\* Gorth.Push: refuses at capacity, leaving the stack as it is
PushErr(s) == IF Len(s) >= MaxStackSize THEN StackOverflow ELSE NoErr
\* Push with the capacity test off by one
PushToOffByOne(s, x) == IF Len(s) > MaxStackSize THEN s ELSE Append(s, x)
PushTo(s, x) == IF Len(s) >= MaxStackSize THEN s ELSE Append(s, x)

RECURSIVE PushAll(_, _)
PushAll(s, p) == IF p = <<>> THEN s ELSE PushAll(PushTo(s, Head(p)), Tail(p))

\* a variable lookup: g.VariableMap[name]
Exists(vm, n) == n \in DOMAIN vm
VType(vm, x) == vm[x.Value].Type
VVal(vm, x) == vm[x.Value].Value

\* x.Value.(string) succeeds when the dynamic value is a Go string
IsStr(x) == x.Type \in {TString, TIdentifier}

\* val1, err := g.Pop(); val2, err := g.Pop(): the operands of a method
Val1(s) == s[Len(s)]
Val2(s) == s[Len(s) - 1]

\* a two-operand method that puts its operands back when it fails
BinaryRestores(s, vm, o) ==
    IF Len(s) < 2 THEN Ret(s, vm, StackUnderflow)
    ELSE IF o.err # NoErr THEN Ret(s, vm, o.err)
    ELSE Ret(PushAll(SubSeq(s, 1, Len(s) - 2), o.push), vm, o.err)

\* The methods that pop two operands, run their switch (outcome o) and
\* ignore the error of the Push that follows.  o is read only once both
\* pops have succeeded.
Binary(s, vm, o) ==
    IF Len(s) < 1 THEN Ret(s, vm, StackUnderflow)
    ELSE IF Len(s) < 2 THEN Ret(Front(s), vm, StackUnderflow)
    ELSE Ret(PushAll(SubSeq(s, 1, Len(s) - 2), o.push), vm, o.err)

\* The methods that pop one operand first
Unary(s, vm, o) ==
    IF Len(s) < 1 THEN Ret(s, vm, StackUnderflow)
    ELSE Ret(PushAll(Front(s), o.push), vm, o.err)

\* ------------------------------------------------------------- Gorth.Add
\* the type table Add applies to two resolved operands; the text of the
\* operand named first comes first
\* (the table without the promotion of an int beside a float)
AddValsNoPromotion(t1, v1, t2, v2) ==
    CASE t1 = TInt /\ t2 = TInt -> PushI(v1 + v2)
      [] t1 = TString /\ t2 = TString -> PushS(v1 \o v2)
      [] t1 = TFloat /\ t2 = TFloat -> PushF(FAdd(v1, v2))
      [] OTHER -> Fail(TypeMismatch)
AddVals(t1, v1, t2, v2) ==
    CASE t1 = TInt /\ t2 = TInt -> PushI(v1 + v2)
      [] t1 = TString /\ t2 = TString -> PushS(v1 \o v2)
      [] t1 = TFloat /\ t2 = TFloat -> PushF(FAdd(v1, v2))
      [] t1 = TInt /\ t2 = TFloat -> PushF(FAdd(ToF(v1), v2))
      [] t1 = TFloat /\ t2 = TInt -> PushF(FAdd(v1, ToF(v2)))
      [] OTHER -> Fail(TypeMismatch)

AddBody(val1, val2, vm) ==
    CASE val1.Type = TIdentifier /\ val2.Type = TIdentifier ->
           IF ~Exists(vm, val1.Value) \/ ~Exists(vm, val2.Value)
           THEN Fail(UndeclaredVariable)
           ELSE AddVals(VType(vm, val1), VVal(vm, val1),
                        VType(vm, val2), VVal(vm, val2))
      [] val1.Type = TIdentifier /\ val2.Type # TIdentifier ->
           IF ~Exists(vm, val1.Value) THEN Fail(UndeclaredVariable)
           ELSE AddVals(VType(vm, val1), VVal(vm, val1), val2.Type, val2.Value)
      [] val1.Type # TIdentifier /\ val2.Type = TIdentifier ->
           IF ~Exists(vm, val2.Value) THEN Fail(UndeclaredVariable)
           \* here the variable (the second-popped operand) is named first
           ELSE AddVals(VType(vm, val2), VVal(vm, val2), val1.Type, val1.Value)
      [] OTHER -> AddVals(val1.Type, val1.Value, val2.Type, val2.Value)

Add(s, vm) == Binary(s, vm, AddBody(Val1(s), Val2(s), vm))

\* ------------------------------------------------------------- Gorth.Sub
\* every branch of Sub subtracts the first-popped from the second-popped
SubVals(t1, v1, t2, v2) ==
    CASE t1 = TInt /\ t2 = TInt -> PushI(v2 - v1)
      [] t1 = TFloat /\ t2 = TFloat -> PushF(FSub(v2, v1))
      [] t1 = TInt /\ t2 = TFloat -> PushF(FSub(v2, ToF(v1)))
      [] t1 = TFloat /\ t2 = TInt -> PushF(FSub(ToF(v2), v1))
      [] OTHER -> Fail(TypeMismatch)

SubBody(val1, val2, vm) ==
    CASE val1.Type = TIdentifier /\ val2.Type = TIdentifier ->
           IF ~Exists(vm, val1.Value) \/ ~Exists(vm, val2.Value)
           THEN Fail(UndeclaredVariable)
           ELSE SubVals(VType(vm, val1), VVal(vm, val1),
                        VType(vm, val2), VVal(vm, val2))
      [] val1.Type = TIdentifier /\ val2.Type # TIdentifier ->
           IF ~Exists(vm, val1.Value) THEN Fail(UndeclaredVariable)
           ELSE SubVals(VType(vm, val1), VVal(vm, val1), val2.Type, val2.Value)
      [] val1.Type # TIdentifier /\ val2.Type = TIdentifier ->
           IF ~Exists(vm, val2.Value) THEN Fail(UndeclaredVariable)
           ELSE SubVals(val1.Type, val1.Value, VType(vm, val2), VVal(vm, val2))
      [] OTHER -> SubVals(val1.Type, val1.Value, val2.Type, val2.Value)

Sub(s, vm) == Binary(s, vm, SubBody(Val1(s), Val2(s), vm))

\* ------------------------------------------------------------- Gorth.Mul
\* for i := 0; i < num; i++ { concat += str }
RECURSIVE Repeat(_, _)
Repeat(str, num) == IF num <= 0 THEN "" ELSE str \o Repeat(str, num - 1)

\* the repeated text, when the value domain holds it
PushRep(str, num) ==
    IF Len(str) * num > MaxTextLen THEN Fail(Unmodelled)
    ELSE PushS(Repeat(str, num))

MulVals(t1, v1, t2, v2) ==
    CASE t1 = TInt /\ t2 = TInt -> PushI(v1 * v2)
      [] t1 = TString /\ t2 = TInt -> PushRep(v1, v2)
      [] t1 = TInt /\ t2 = TString -> PushRep(v2, v1)
      [] t1 = TFloat /\ t2 = TFloat -> PushF(FMul(v1, v2))
      [] t1 = TInt /\ t2 = TFloat -> PushF(FMul(ToF(v1), v2))
      [] t1 = TFloat /\ t2 = TInt -> PushF(FMul(v1, ToF(v2)))
      [] OTHER -> Fail(TypeMismatch)

MulBody(val1, val2, vm) ==
    CASE val1.Type = TIdentifier /\ val2.Type = TIdentifier ->
           IF ~Exists(vm, val1.Value) \/ ~Exists(vm, val2.Value)
           THEN Fail(UndeclaredVariable)
           ELSE MulVals(VType(vm, val1), VVal(vm, val1),
                        VType(vm, val2), VVal(vm, val2))
      [] val1.Type = TIdentifier /\ val2.Type # TIdentifier ->
           IF ~Exists(vm, val1.Value) THEN Fail(UndeclaredVariable)
           ELSE MulVals(VType(vm, val1), VVal(vm, val1), val2.Type, val2.Value)
      [] val1.Type # TIdentifier /\ val2.Type = TIdentifier ->
           IF ~Exists(vm, val2.Value) THEN Fail(UndeclaredVariable)
           ELSE MulVals(val1.Type, val1.Value, VType(vm, val2), VVal(vm, val2))
      [] OTHER -> MulVals(val1.Type, val1.Value, val2.Type, val2.Value)

Mul(s, vm) == Binary(s, vm, MulBody(Val1(s), Val2(s), vm))

\* ------------------------------------------------------------- Gorth.Div
\* val2 / val1 on two resolved operands.  An int divisor of zero is Go's
\* run-time panic "integer divide by zero": Div has no check for it.
DivVals(t1, v1, t2, v2) ==
    CASE t1 = TInt /\ t2 = TInt ->
           IF v1 = 0 THEN Panic ELSE PushI(Quot(v2, v1))
      [] t1 = TFloat /\ t2 = TFloat -> PushF(FDiv(v2, v1))
      [] t1 = TInt /\ t2 = TFloat -> PushF(FDiv(v2, ToF(v1)))
      [] t1 = TFloat /\ t2 = TInt -> PushF(FDiv(ToF(v2), v1))
      [] OTHER -> Fail(TypeMismatch)

\* When exactly one operand is an Identifier, Div looks both operands up
\* as variable names: the type assertion .(string) on the other operand
\* panics unless that operand is a text, and a text matches no case of the
\* switch that follows.
DivBody(val1, val2, vm) ==
    CASE val1.Type = TIdentifier /\ val2.Type = TIdentifier ->
           IF ~Exists(vm, val1.Value) \/ ~Exists(vm, val2.Value)
           THEN Fail(UndeclaredVariable)
           ELSE DivVals(VType(vm, val1), VVal(vm, val1),
                        VType(vm, val2), VVal(vm, val2))
      [] val1.Type = TIdentifier /\ val2.Type # TIdentifier ->
           IF ~IsStr(val2) THEN Panic
           ELSE IF ~Exists(vm, val1.Value) \/ ~Exists(vm, val2.Value)
           THEN Fail(UndeclaredVariable)
           ELSE Fail(TypeMismatch)
      [] val1.Type # TIdentifier /\ val2.Type = TIdentifier ->
           IF ~IsStr(val1) THEN Panic
           ELSE IF ~Exists(vm, val1.Value) \/ ~Exists(vm, val2.Value)
           THEN Fail(UndeclaredVariable)
           ELSE Fail(TypeMismatch)
      [] OTHER -> DivVals(val1.Type, val1.Value, val2.Type, val2.Value)

Div(s, vm) == Binary(s, vm, DivBody(Val1(s), Val2(s), vm))

\* ------------------------------------------------------------- Gorth.Mod
\* Mod has the int/int case for two literals and for two variables; with
\* the divisor a variable and the dividend a literal its zero test reads
\* val1.Value.(int) off the Identifier, which panics; a dividend that is a
\* variable over a literal divisor has no case at all.
\* (first: Mod with the zero test of its literal case left out, as in Div)
ModBodyNoZeroTest(val1, val2, vm) ==
    CASE val1.Type = TInt /\ val2.Type = TInt ->
           IF val1.Value = 0 THEN Panic
           ELSE PushI(Rem(val2.Value, val1.Value))
      [] OTHER -> Fail(TypeMismatch)
ModBody(val1, val2, vm) ==
    CASE val1.Type = TInt /\ val2.Type = TInt ->
           IF val1.Value = 0 THEN Fail(DivisionByZero)
           ELSE PushI(Rem(val2.Value, val1.Value))
      [] val1.Type = TIdentifier /\ val2.Type = TIdentifier ->
           IF ~Exists(vm, val1.Value) \/ ~Exists(vm, val2.Value)
           THEN Fail(UndeclaredVariable)
           ELSE IF VType(vm, val1) = TInt /\ VType(vm, val2) = TInt
           THEN IF VVal(vm, val1) = 0 THEN Fail(DivisionByZero)
                ELSE PushI(Rem(VVal(vm, val2), VVal(vm, val1)))
           ELSE Fail(TypeMismatch)
      [] val1.Type = TIdentifier /\ val2.Type # TIdentifier ->
           IF ~Exists(vm, val1.Value) THEN Fail(UndeclaredVariable)
           ELSE IF VType(vm, val1) = TInt /\ val2.Type = TInt THEN Panic
           ELSE Fail(TypeMismatch)
      [] OTHER -> Fail(TypeMismatch)

Mod(s, vm) == Binary(s, vm, ModBody(Val1(s), Val2(s), vm))

\* ------------------------------------------------------------- Gorth.Exp
\* math.Pow(val2, val1) on two resolved operands
ExpVals(t1, v1, t2, v2) ==
    CASE t1 = TInt /\ t2 = TInt -> PushIR(IntPow(v2, v1))
      [] t1 = TFloat /\ t2 = TFloat -> PushF(FPow(v2, v1))
      [] t1 = TInt /\ t2 = TFloat -> PushF(FPow(v2, ToF(v1)))
      [] t1 = TFloat /\ t2 = TInt -> PushF(FPow(ToF(v2), v1))
      [] OTHER -> Fail(TypeMismatch)

\* the same-kind cases of the Identifier branches; their mixed int/float
\* cases assert the wrong dynamic type on the second-popped operand
\* (.(int) on a float64 and .(float64) on an int) and panic
ExpMixedPanics(t1, v1, t2, v2) ==
    CASE t1 = TInt /\ t2 = TInt -> PushIR(IntPow(v2, v1))
      [] t1 = TFloat /\ t2 = TFloat -> PushF(FPow(v2, v1))
      [] t1 = TInt /\ t2 = TFloat -> Panic
      [] t1 = TFloat /\ t2 = TInt -> Panic
      [] OTHER -> Fail(TypeMismatch)

ExpBody(val1, val2, vm) ==
    CASE val1.Type = TIdentifier /\ val2.Type = TIdentifier ->
           IF ~Exists(vm, val1.Value) \/ ~Exists(vm, val2.Value)
           THEN Fail(UndeclaredVariable)
           ELSE ExpMixedPanics(VType(vm, val1), VVal(vm, val1),
                               VType(vm, val2), VVal(vm, val2))
      [] val1.Type = TIdentifier /\ val2.Type # TIdentifier ->
           IF ~Exists(vm, val1.Value) THEN Fail(UndeclaredVariable)
           ELSE ExpMixedPanics(VType(vm, val1), VVal(vm, val1),
                               val2.Type, val2.Value)
      [] val1.Type # TIdentifier /\ val2.Type = TIdentifier ->
           IF ~Exists(vm, val2.Value) THEN Fail(UndeclaredVariable)
           ELSE ExpVals(val1.Type, val1.Value, VType(vm, val2), VVal(vm, val2))
      [] OTHER -> ExpVals(val1.Type, val1.Value, val2.Type, val2.Value)

Exp(s, vm) == Binary(s, vm, ExpBody(Val1(s), Val2(s), vm))

\* ------------------------------------------- Gorth.Inc, Gorth.Dec, Gorth.Neg
\* temp := g.VariableMap[name]; temp.Value = v; g.VariableMap[name] = temp
\* the write to the table left out
SetValueLost(vm, n, v) == vm
SetValue(vm, n, v) == [vm EXCEPT ![n] = [@ EXCEPT !.Value = v]]

\* Inc (d = 1) and Dec (d = -1): a literal is replaced by the new value, a
\* variable is changed in the table and nothing is pushed
IncDec(s, vm, d) ==
    IF Len(s) < 1 THEN Ret(s, vm, StackUnderflow)
    ELSE LET val == Top(s)
             s1 == Front(s)
         IN  CASE val.Type = TInt ->
                    IF InInt(val.Value + d)
                    THEN Ret(PushTo(s1, Elem(TInt, val.Value + d)), vm, NoErr)
                    ELSE Ret(s1, vm, Unmodelled)
               [] val.Type = TFloat ->
                    IF InFloat(val.Value + ToF(d))
                    THEN Ret(PushTo(s1, Elem(TFloat, val.Value + ToF(d))), vm, NoErr)
                    ELSE Ret(s1, vm, Unmodelled)
               [] val.Type = TIdentifier ->
                    IF ~Exists(vm, val.Value) THEN Ret(s1, vm, UndeclaredVariable)
                    ELSE IF VType(vm, val) = TInt
                    THEN IF InInt(VVal(vm, val) + d)
                         THEN Ret(s1, SetValue(vm, val.Value, VVal(vm, val) + d), NoErr)
                         ELSE Ret(s1, vm, Unmodelled)
                    ELSE IF VType(vm, val) = TFloat
                    THEN IF InFloat(VVal(vm, val) + ToF(d))
                         THEN Ret(s1, SetValue(vm, val.Value, VVal(vm, val) + ToF(d)), NoErr)
                         ELSE Ret(s1, vm, Unmodelled)
                    ELSE Ret(s1, vm, TypeMismatch)
               [] OTHER -> Ret(s1, vm, TypeMismatch)

Inc(s, vm) == IncDec(s, vm, 1)

Dec(s, vm) == IncDec(s, vm, -1)

Neg(s, vm) ==
    IF Len(s) < 1 THEN Ret(s, vm, StackUnderflow)
    ELSE LET val == Top(s)
             s1 == Front(s)
         IN  CASE val.Type \in {TInt, TFloat} ->
                    Ret(PushTo(s1, Elem(val.Type, -val.Value)), vm, NoErr)
               [] val.Type = TBool ->
                    Ret(PushTo(s1, Elem(TBool, ~val.Value)), vm, NoErr)
               [] val.Type = TIdentifier ->
                    IF ~Exists(vm, val.Value) THEN Ret(s1, vm, UndeclaredVariable)
                    ELSE IF VType(vm, val) \in {TInt, TFloat}
                    THEN Ret(s1, SetValue(vm, val.Value, -VVal(vm, val)), NoErr)
                    ELSE IF VType(vm, val) = TBool
                    THEN Ret(s1, SetValue(vm, val.Value, ~VVal(vm, val)), NoErr)
                    ELSE Ret(s1, vm, TypeMismatch)
               [] OTHER -> Ret(s1, vm, TypeMismatch)

\* ------------------------------------------------- the stack manipulators
\* Gorth.Pop
Pop(s, vm) ==
    IF Len(s) < 1 THEN Ret(s, vm, StackUnderflow) ELSE Ret(Front(s), vm, NoErr)

\* Gorth.Peek
Peek(s, vm) == Ret(s, vm, IF Len(s) < 1 THEN StackUnderflow ELSE NoErr)

\* Gorth.Drop
Drop(s, vm) ==
    IF Len(s) < 1 THEN Ret(s, vm, StackUnderflow) ELSE Ret(Front(s), vm, NoErr)

\* Gorth.Swap
SwapBody(val1, val2, vm) == Out(NoErr, <<val1, val2>>)

Swap(s, vm) == Binary(s, vm, SwapBody(Val1(s), Val2(s), vm))

\* a duplication that moves the top item instead of copying it
DupMoves(s, vm) ==
    IF Len(s) < 1 THEN Ret(s, vm, StackUnderflow)
    ELSE Ret(PushTo(Front(s), Top(s)), vm, NoErr)
\* Gorth.Dup: the error of its Push is dropped
Dup(s, vm) ==
    IF Len(s) < 1 THEN Ret(s, vm, StackUnderflow)
    ELSE Ret(PushTo(s, Top(s)), vm, NoErr)

\* a rotation in the other direction: the top item goes third from the top
RotBackwards(s, vm) ==
    IF Len(s) < 3 THEN Ret(s, vm, StackUnderflow)
    ELSE Ret(PushAll(SubSeq(s, 1, Len(s) - 3),
                     <<s[Len(s)], s[Len(s) - 2], s[Len(s) - 1]>>), vm, NoErr)

\* Gorth.Rot
Rot(s, vm) ==
    IF Len(s) < 3 THEN Ret(s, vm, StackUnderflow)
    ELSE LET val1 == s[Len(s)]
             val2 == s[Len(s) - 1]
             val3 == s[Len(s) - 2]
         IN  Ret(PushAll(SubSeq(s, 1, Len(s) - 3), <<val2, val1, val3>>), vm, NoErr)

\* Gorth.Dump: pops, then prints an Int, String or Bool, or whatever the
\* table holds under an Identifier's name; a Float literal is refused
DumpBody(val, vm) ==
    IF val.Type \in {TInt, TString, TBool, TIdentifier} THEN Nothing
    ELSE Fail(TypeMismatch)

Dump(s, vm) == Unary(s, vm, DumpBody(Val1(s), vm))

\* Gorth.Print: peeks
PrintOp(s, vm) ==
    IF Len(s) < 1 THEN Ret(s, vm, StackUnderflow)
    ELSE LET val == Top(s)
         IN  CASE val.Type \in ValueTypes -> Ret(s, vm, NoErr)
               [] val.Type = TIdentifier ->
                    IF ~Exists(vm, val.Value) THEN Ret(s, vm, UndeclaredVariable)
                    ELSE Ret(s, vm, NoErr)
               [] OTHER -> Ret(s, vm, TypeMismatch)

\* ------------------------------------------------- Gorth.And and Gorth.Or
\* After the type check, the first case of the switch evaluates
\* val1.Value.(bool) && val2.Value.(bool) (|| in Or) left to right with
\* short circuit: the assertion panics on an Identifier, whose Value is its
\* name.  The Identifier cases behind it are reached only past that case.
AndBody(val1, val2, vm) ==
    IF ~(val1.Type \in {TBool, TIdentifier}) \/ ~(val2.Type \in {TBool, TIdentifier})
    THEN Fail(TypeMismatch)
    ELSE IF val1.Type = TIdentifier THEN Panic
    ELSE IF val1.Value /\ val2.Type = TIdentifier THEN Panic
    ELSE IF val1.Value /\ val2.Value THEN PushB(TRUE)
    ELSE IF val2.Type = TIdentifier
    THEN IF ~Exists(vm, val2.Value) THEN Fail(UndeclaredVariable)
         ELSE IF VType(vm, val2) = TBool THEN PushB(VVal(vm, val2) /\ val1.Value)
         ELSE Fail(TypeMismatch)
    ELSE PushB(FALSE)

And(s, vm) == Binary(s, vm, AndBody(Val1(s), Val2(s), vm))

OrBody(val1, val2, vm) ==
    IF ~(val1.Type \in {TBool, TIdentifier}) \/ ~(val2.Type \in {TBool, TIdentifier})
    THEN Fail(TypeMismatch)
    ELSE IF val1.Type = TIdentifier THEN Panic
    ELSE IF val1.Value THEN PushB(TRUE)
    ELSE IF val2.Type = TIdentifier THEN Panic
    ELSE IF val2.Value THEN PushB(TRUE)
    ELSE PushB(FALSE)

Or(s, vm) == Binary(s, vm, OrBody(Val1(s), Val2(s), vm))

\* --------------------------------------------------------------- Gorth.Not
\* flips a bool and changes the sign of a number; an Identifier is read,
\* not written, and one bound to a text pushes nothing and reports nothing
\* a negation that refuses everything but a boolean
NotBodyBoolOnly(val1, vm) ==
    IF val1.Type = TBool THEN PushB(~val1.Value) ELSE Fail(TypeMismatch)
NotBody(val1, vm) ==
    CASE val1.Type = TBool -> PushB(~val1.Value)
      [] val1.Type = TInt -> PushI(IF val1.Value # 0 THEN val1.Value * (-1) ELSE 0)
      [] val1.Type = TFloat ->
           PushF(FRes(TRUE, IF val1.Value # 0 THEN val1.Value * (-1) ELSE 0))
      [] val1.Type = TIdentifier ->
           IF ~Exists(vm, val1.Value) THEN Fail(UndeclaredVariable)
           ELSE CASE VType(vm, val1) = TBool -> PushB(~VVal(vm, val1))
                  [] VType(vm, val1) = TInt -> PushI(VVal(vm, val1) * (-1))
                  [] VType(vm, val1) = TFloat ->
                       PushF(FRes(TRUE, VVal(vm, val1) * (-1)))
                  [] OTHER -> Nothing
      [] OTHER -> Fail(TypeMismatch)

Not(s, vm) == Unary(s, vm, NotBody(Val1(s), vm))

\* ------------------------------------------------------------- Gorth.Equal
\* operands of different Type compare false before any Identifier is
\* resolved, so the one-Identifier cases of the switch are never reached
\* an equality that refuses operands of different kinds
EqualBodyRefusesMixed(val1, val2, vm) ==
    IF val1.Type # val2.Type THEN Fail(TypeMismatch)
    ELSE IF val1.Type \in ValueTypes THEN PushB(val1.Value = val2.Value)
    ELSE IF val1.Type = TIdentifier
    THEN IF ~Exists(vm, val1.Value) \/ ~Exists(vm, val2.Value)
         THEN Fail(UndeclaredVariable)
         ELSE IF VType(vm, val1) # VType(vm, val2) THEN PushB(FALSE)
         ELSE IF VType(vm, val1) \in ValueTypes
         THEN PushB(VVal(vm, val1) = VVal(vm, val2))
         ELSE Nothing
    ELSE PushB(FALSE)
EqualBody(val1, val2, vm) ==
    IF val1.Type # val2.Type THEN PushB(FALSE)
    ELSE IF val1.Type \in ValueTypes THEN PushB(val1.Value = val2.Value)
    ELSE IF val1.Type = TIdentifier
    THEN IF ~Exists(vm, val1.Value) \/ ~Exists(vm, val2.Value)
         THEN Fail(UndeclaredVariable)
         ELSE IF VType(vm, val1) # VType(vm, val2) THEN PushB(FALSE)
         ELSE IF VType(vm, val1) \in ValueTypes
         THEN PushB(VVal(vm, val1) = VVal(vm, val2))
         ELSE Nothing
    ELSE PushB(FALSE)

Equal(s, vm) == Binary(s, vm, EqualBody(Val1(s), Val2(s), vm))

\* an inequality that leaves out the negation
NotEqualUnnegated(s, vm) == Ret(Equal(s, vm).stack, vm, NoErr)
\* Gorth.NotEqual: g.Equal(); g.Not() with both errors dropped; it returns
\* nothing, so only a panic gets out
NotEqual(s, vm) ==
    LET e == Equal(s, vm)
        n == Not(e.stack, e.vars)
    IN  IF e.err \in {Panicked, Unmodelled} THEN e
        ELSE IF n.err \in {Panicked, Unmodelled} THEN n
        ELSE Ret(n.stack, n.vars, NoErr)

\* --------------------------------------------------------- Gorth.EqualType
\* the first case compares the Type fields as they are: two Identifiers are
\* of equal Type whatever their variables hold
EqualTypeBody(val1, val2, vm) ==
    IF val1.Type = val2.Type THEN PushB(TRUE)
    ELSE IF val1.Type = TIdentifier
    THEN IF ~Exists(vm, val1.Value) THEN Fail(UndeclaredVariable)
         ELSE PushB(VType(vm, val1) = val2.Type)
    ELSE IF val2.Type = TIdentifier
    THEN IF ~Exists(vm, val2.Value) THEN Fail(UndeclaredVariable)
         ELSE PushB(VType(vm, val2) = val1.Type)
    ELSE PushB(FALSE)

EqualType(s, vm) == Binary(s, vm, EqualTypeBody(Val1(s), Val2(s), vm))

\* ----- Gorth.GreaterThan, LessThan, GreaterThanEqual and LessThanEqual
\* the four methods differ only in the comparison they apply
Cmp(op, a, b) ==
    CASE op = "GT_THAN_OP" -> a > b
      [] op = "LS_THAN_OP" -> a < b
      [] op = "GT_THAN_EQ_OP" -> a >= b
      [] op = "LS_THAN_EQ_OP" -> a <= b

\* val2 OP val1; with the first-popped operand an Identifier and the other
\* a number of the variable's kind, the method looks the number up as a
\* variable name (g.VariableMap[val2.Value.(string)]) and panics
RelBody(op, val1, val2, vm) ==
    CASE val1.Type = TInt /\ val2.Type = TInt ->
           PushB(Cmp(op, val2.Value, val1.Value))
      [] val1.Type = TFloat /\ val2.Type = TFloat ->
           PushB(Cmp(op, val2.Value, val1.Value))
      [] val1.Type = TInt /\ val2.Type = TFloat ->
           PushB(Cmp(op, val2.Value, ToF(val1.Value)))
      [] val1.Type = TFloat /\ val2.Type = TInt ->
           PushB(Cmp(op, ToF(val2.Value), val1.Value))
      [] val1.Type = TIdentifier /\ val2.Type = TIdentifier ->
           IF ~Exists(vm, val1.Value) \/ ~Exists(vm, val2.Value)
           THEN Fail(UndeclaredVariable)
           ELSE IF VType(vm, val1) # VType(vm, val2) THEN Fail(TypeMismatch)
           ELSE IF VType(vm, val1) \in {TInt, TFloat}
           THEN PushB(Cmp(op, VVal(vm, val2), VVal(vm, val1)))
           ELSE Nothing
      [] val1.Type = TIdentifier /\ val2.Type # TIdentifier ->
           IF ~Exists(vm, val1.Value) THEN Fail(UndeclaredVariable)
           ELSE IF VType(vm, val1) # val2.Type THEN Fail(TypeMismatch)
           ELSE IF val2.Type \in {TInt, TFloat} THEN Panic
           ELSE Nothing
      [] val1.Type # TIdentifier /\ val2.Type = TIdentifier ->
           IF ~Exists(vm, val2.Value) THEN Fail(UndeclaredVariable)
           ELSE IF VType(vm, val2) # val1.Type THEN Fail(TypeMismatch)
           ELSE IF val1.Type \in {TInt, TFloat}
           THEN PushB(Cmp(op, VVal(vm, val2), val1.Value))
           ELSE Nothing
      [] OTHER -> Fail(TypeMismatch)


GreaterThan(s, vm) ==
    Binary(s, vm, RelBody("GT_THAN_OP", Val1(s), Val2(s), vm))

LessThan(s, vm) ==
    Binary(s, vm, RelBody("LS_THAN_OP", Val1(s), Val2(s), vm))

GreaterThanEqual(s, vm) ==
    Binary(s, vm, RelBody("GT_THAN_EQ_OP", Val1(s), Val2(s), vm))

LessThanEqual(s, vm) ==
    Binary(s, vm, RelBody("LS_THAN_EQ_OP", Val1(s), Val2(s), vm))

\* --------------------------------------------------------- Gorth.VarAssign
\* (first: VarAssign that stores a value of any kind)
VarAssignCoerces(s, vm) ==
    IF Len(s) < 1 THEN Ret(s, vm, StackUnderflow)
    ELSE IF Len(s) < 2 THEN Ret(Front(s), vm, StackUnderflow)
    ELSE LET val1 == s[Len(s)]
             val2 == s[Len(s) - 1]
             s2 == SubSeq(s, 1, Len(s) - 2)
         IN  IF val2.Type # TIdentifier THEN Ret(s2, vm, NotAVariable)
             ELSE IF ~Exists(vm, val2.Value) THEN Ret(s2, vm, UndeclaredVariable)
             ELSE IF vm[val2.Value].Const THEN Ret(s2, vm, ConstReassignment)
             ELSE IF ~(val1.Type \in ValueTypes) THEN Ret(s2, vm, TypeMismatch)
             ELSE Ret(s2,
                      [vm EXCEPT ![val2.Value] =
                          [Type |-> val1.Type, Value |-> val1.Value,
                           Name |-> val2.Value, Const |-> FALSE]],
                      NoErr)
\* (then: VarAssign without its test of Const)
VarAssignNoConstTest(s, vm) ==
    IF Len(s) < 1 THEN Ret(s, vm, StackUnderflow)
    ELSE IF Len(s) < 2 THEN Ret(Front(s), vm, StackUnderflow)
    ELSE LET val1 == s[Len(s)]
             val2 == s[Len(s) - 1]
             s2 == SubSeq(s, 1, Len(s) - 2)
         IN  IF val2.Type # TIdentifier THEN Ret(s2, vm, NotAVariable)
             ELSE IF ~Exists(vm, val2.Value) THEN Ret(s2, vm, UndeclaredVariable)
             ELSE IF ~(VType(vm, val2) \in ValueTypes) THEN Ret(s2, vm, NotAVariable)
             ELSE IF val1.Type # VType(vm, val2) THEN Ret(s2, vm, TypeMismatch)
             ELSE Ret(s2,
                      [vm EXCEPT ![val2.Value] =
                          [Type |-> val1.Type, Value |-> val1.Value,
                           Name |-> val2.Value, Const |-> FALSE]],
                      NoErr)
\* an assignment that leaves the assigned value on the stack
VarAssignLeavesValue(s, vm) ==
    IF Len(s) < 1 THEN Ret(s, vm, StackUnderflow)
    ELSE IF Len(s) < 2 THEN Ret(Front(s), vm, StackUnderflow)
    ELSE LET val1 == s[Len(s)]
             val2 == s[Len(s) - 1]
             s2 == SubSeq(s, 1, Len(s) - 2)
         IN  IF val2.Type # TIdentifier THEN Ret(s2, vm, NotAVariable)
             ELSE IF ~Exists(vm, val2.Value) THEN Ret(s2, vm, UndeclaredVariable)
             ELSE IF vm[val2.Value].Const THEN Ret(s2, vm, ConstReassignment)
             ELSE IF ~(VType(vm, val2) \in ValueTypes) THEN Ret(s2, vm, NotAVariable)
             ELSE IF val1.Type # VType(vm, val2) THEN Ret(s2, vm, TypeMismatch)
             ELSE Ret(Append(s2, val1),
                      [vm EXCEPT ![val2.Value] =
                          [Type |-> val1.Type, Value |-> val1.Value,
                           Name |-> val2.Value, Const |-> FALSE]],
                      NoErr)
VarAssign(s, vm) ==
    IF Len(s) < 1 THEN Ret(s, vm, StackUnderflow)
    ELSE IF Len(s) < 2 THEN Ret(Front(s), vm, StackUnderflow)
    ELSE LET val1 == s[Len(s)]
             val2 == s[Len(s) - 1]
             s2 == SubSeq(s, 1, Len(s) - 2)
         IN  IF val2.Type # TIdentifier THEN Ret(s2, vm, NotAVariable)
             ELSE IF ~Exists(vm, val2.Value) THEN Ret(s2, vm, UndeclaredVariable)
             ELSE IF vm[val2.Value].Const THEN Ret(s2, vm, ConstReassignment)
             ELSE IF ~(VType(vm, val2) \in ValueTypes) THEN Ret(s2, vm, NotAVariable)
             ELSE IF val1.Type # VType(vm, val2) THEN Ret(s2, vm, TypeMismatch)
             ELSE Ret(s2,
                      [vm EXCEPT ![val2.Value] =
                          [Type |-> val1.Type, Value |-> val1.Value,
                           Name |-> val2.Value, Const |-> FALSE]],
                      NoErr)

\* ================================================================ Tokenize
\* A lexical unit (one element of parts) is a sequence of characters.
Digit == {"0", "1", "2", "3", "4", "5", "6", "7", "8", "9"}
\* the Go string a unit is
RECURSIVE Join(_)
Join(cs) == IF cs = <<>> THEN "" ELSE Head(cs) \o Join(Tail(cs))

\* an integer pattern without the sign, ^\d+$
integerRegexUnsigned(u) == u # <<>> /\ \A i \in 1..Len(u) : u[i] \in Digit
\* ^-?\d+$
integerRegex(u) ==
    LET d == IF u # <<>> /\ Head(u) = "-" THEN Tail(u) ELSE u
    IN  d # <<>> /\ \A i \in 1..Len(d) : d[i] \in Digit
\* ^-?\d+\.\d+$
floatRegex(u) ==
    \E i \in 2..(Len(u) - 1) :
        /\ u[i] = "."
        /\ integerRegex(SubSeq(u, 1, i - 1))
        /\ \A k \in (i + 1)..Len(u) : u[k] \in Digit
\* ^".*"$
stringRegex(u) == Len(u) >= 2 /\ Head(u) = "\"" /\ u[Len(u)] = "\""
\* ^(true|false)$
boolRegex(u) == Join(u) \in {"true", "false"}
\* the alternatives of operatorRegex
operatorRegex(u) ==
    Join(u) \in {"+", "-", "*", "/", "%", "^", "++", "--", "neg", "swap",
                 "dup", "drop", "dump", "print", "rot", "&&", "||", "!",
                 "==", "!=", "===", ">", "<", ">=", "<=", "="}
\* [a-zA-Z_][a-zA-Z0-9_]*
NameChars(cs) ==
    LET Letter ==
            {"a", "b", "c", "d", "e", "f", "g", "h", "i", "j", "k", "l", "m",
             "n", "o", "p", "q", "r", "s", "t", "u", "v", "w", "x", "y", "z",
             "A", "B", "C", "D", "E", "F", "G", "H", "I", "J", "K", "L", "M",
             "N", "O", "P", "Q", "R", "S", "T", "U", "V", "W", "X", "Y", "Z"}
    IN  /\ cs # <<>>
        /\ Head(cs) \in Letter \cup {"_"}
        /\ \A i \in 2..Len(cs) : cs[i] \in Letter \cup Digit \cup {"_"}
\* ^\/[a-zA-Z_][a-zA-Z0-9_]*$
varNameRegex(u) == u # <<>> /\ Head(u) = "/" /\ NameChars(Tail(u))
\* ^(def|const|=)$
keyWordRegex(u) == Join(u) \in {"def", "const", "="}
\* ^_[a-zA-Z_][a-zA-Z0-9_]*$
varUsageRegex(u) == u # <<>> /\ Head(u) = "_" /\ NameChars(Tail(u))

\* operatorMap[w]: a key the map lacks yields the zero Operation, ADD_OP
operatorMap(w) ==
    CASE w = "+" -> "ADD_OP" [] w = "-" -> "SUB_OP" [] w = "*" -> "MUL_OP"
      [] w = "/" -> "DIV_OP" [] w = "%" -> "MOD_OP" [] w = "^" -> "EXP_OP"
      [] w = "++" -> "INC_OP" [] w = "--" -> "DEC_OP"
      [] w = "swap" -> "SWAP_OP" [] w = "dup" -> "DUP_OP"
      [] w = "drop" -> "DROP_OP" [] w = "dump" -> "DUMP_OP"
      [] w = "print" -> "PRINT_OP" [] w = "rot" -> "ROT_OP"
      [] w = "&&" -> "AND_OP" [] w = "||" -> "OR_OP" [] w = "!" -> "NOT_OP"
      [] w = "==" -> "EQUAL_OP" [] w = "!=" -> "NOT_EQUAL_OP"
      [] w = "===" -> "EQUAL_TYP_OP" [] w = ">" -> "GT_THAN_OP"
      [] w = "<" -> "LS_THAN_OP" [] w = ">=" -> "GT_THAN_EQ_OP"
      [] w = "<=" -> "LS_THAN_EQ_OP" [] w = "=" -> "VAR_ASSIGN_OP"
      [] OTHER -> "ADD_OP"

\* strconv.Atoi on a unit integerRegex has matched
RECURSIVE Atoi(_)
Atoi(u) ==
    LET digit(c) ==
            CASE c = "0" -> 0 [] c = "1" -> 1 [] c = "2" -> 2 [] c = "3" -> 3
              [] c = "4" -> 4 [] c = "5" -> 5 [] c = "6" -> 6 [] c = "7" -> 7
              [] c = "8" -> 8 [] c = "9" -> 9
    IN  IF u = <<>> THEN 0
        ELSE IF Head(u) = "-" THEN -Atoi(Tail(u))
        ELSE 10 * Atoi(SubSeq(u, 1, Len(u) - 1)) + digit(u[Len(u)])

\* strconv.ParseFloat on a unit floatRegex has matched, in halves; the
\* units of the model have the fraction .0 or .5
ParseFloat(u) ==
    LET i == CHOOSE k \in 2..(Len(u) - 1) : u[k] = "."
        whole == 2 * Atoi(SubSeq(u, 1, i - 1))
        half == IF SubSeq(u, i + 1, Len(u)) = <<"5">> THEN 1 ELSE 0
    IN  IF Head(u) = "-" THEN whole - half ELSE whole + half

\* strings.Trim(s, `"`): every leading and trailing quote goes
RECURSIVE TrimQuotes(_)
TrimQuotes(cs) ==
    IF cs # <<>> /\ Head(cs) = "\"" THEN TrimQuotes(Tail(cs))
    ELSE IF cs # <<>> /\ cs[Len(cs)] = "\""
    THEN TrimQuotes(SubSeq(cs, 1, Len(cs) - 1))
    ELSE cs

\* ===================================================== the state machine
VARIABLES
    ExecStack,    \* Gorth.ExecStack, bottom first
    VariableMap,  \* Gorth.VariableMap: name -> Variable
    StrictMode,   \* Gorth.StrictMode
    pc,           \* "idle", "running" (inside ExecuteProgram), "returned"
                  \* (ExecuteProgram has returned) or "panicked"
    err,          \* what the last finished call returned to its caller
    steps,        \* tokens executed and public calls made so far
    lastOp,       \* the token or call handled last
    prevStack,    \* ExecStack before lastOp (while lexing: tokens before)
    prevVars,     \* VariableMap before lastOp (while lexing: variables
                  \* before)
    tokens,       \* Tokenize: the tokens emitted so far
    variables,    \* Tokenize: the variable table built so far
    lastAddedVariable,  \* Tokenize: its copy of the variable declared last
    state,        \* Tokenize: stateMachine.CurrentState
    program       \* ExecuteProgram: the tokens main passed, not yet executed

vars == <<ExecStack, VariableMap, StrictMode, pc, err, steps, lastOp,
          prevStack, prevVars, tokens, variables, lastAddedVariable, state,
          program>>

Variable(t, v, n, c) == [Type |-> t, Value |-> v, Name |-> n, Const |-> c]

\* Variable tables a lexed program hands to the engine: none, numbers,
\* a constant, texts, booleans, and a name declared without a literal
NoVars == <<>>
Table(vx, vy) == [n \in Names |-> IF n = "x" THEN vx ELSE vy]
InitTables ==
    { NoVars,
      Table(Variable(TInt, 2, "x", FALSE), Variable(TInt, 0, "y", FALSE)),
      Table(Variable(TInt, -3, "x", TRUE), Variable(TFloat, 3, "y", FALSE)),
      Table(Variable(TString, "b", "x", FALSE), Variable(TString, "x", "y", TRUE)),
      Table(Variable(TBool, TRUE, "x", FALSE), Variable(TBool, FALSE, "y", FALSE)),
      Table(Variable(TFloat, 3, "x", TRUE), Variable(TIdentifier, Nil, "y", FALSE)) }

\* ------------------------------------------------- Tokenize, unit by unit
StateNormal == "StateNormal"
StateVarDeclaration == "StateVarDeclaration"

\* the zero Variable Tokenize starts with: Type 0 is Int, Value nil
ZeroVariable == Variable(TInt, Nil, "", FALSE)

\* what Tokenize holds between two units, and the error it returns; an
\* error comes with nil tokens and a nil table
Lexed(t, v, l, st, e) ==
    [tokens |-> t, variables |-> v, last |-> l, state |-> st, err |-> e]
\* variables[n] = var
\* a table write that spills the written Const flag onto the other entries
PutSpills(v, n, var) ==
    [k \in DOMAIN v \cup {n} |->
        IF k = n THEN var ELSE [v[k] EXCEPT !.Const = var.Const]]
Put(v, n, var) == [k \in DOMAIN v \cup {n} |-> IF k = n THEN var ELSE v[k]]

\* stateMachine.HandleToken[StateNormal]
HandleNormal(t, v, l, u) ==
    IF integerRegex(u)
    THEN Lexed(Append(t, Elem(TInt, Atoi(u))), v, l, StateNormal, NoErr)
    ELSE IF floatRegex(u)
    THEN Lexed(Append(t, Elem(TFloat, ParseFloat(u))), v, l, StateNormal, NoErr)
    ELSE IF stringRegex(u)
    THEN Lexed(Append(t, Elem(TString, Join(TrimQuotes(u)))), v, l,
               StateNormal, NoErr)
    ELSE IF boolRegex(u)
    THEN Lexed(Append(t, Elem(TBool, Join(u) = "true")), v, l, StateNormal, NoErr)
    ELSE IF operatorRegex(u)
    THEN Lexed(Append(t, Elem(TOperator, operatorMap(Join(u)))), v, l, StateNormal, NoErr)
    ELSE IF keyWordRegex(u)
    THEN IF Join(u) = "const"
         THEN LET c == [l EXCEPT !.Const = TRUE]
              IN  Lexed(t, Put(v, c.Name, c), c, StateNormal, NoErr)
         ELSE Lexed(t, v, l, StateNormal, NoErr)
    ELSE IF varUsageRegex(u)
    THEN IF Exists(v, Join(Tail(u)))
         THEN Lexed(Append(t, Elem(TIdentifier, v[Join(Tail(u))].Name)), v, l,
                    StateNormal, NoErr)
         ELSE Lexed(<<>>, NoVars, l, StateNormal, UndeclaredVariable)
    ELSE Lexed(<<>>, NoVars, l, StateNormal, InvalidToken)

\* a declaration that emits no token
DeclareSilently(t, v, l, ty, val) ==
    LET d == [l EXCEPT !.Value = val, !.Type = ty]
    IN  Lexed(t, Put(v, d.Name, d), d, StateNormal, NoErr)
\* a declaration that leaves the lexer waiting for a value
DeclareStaysDeclaring(t, v, l, ty, val) ==
    LET d == [l EXCEPT !.Value = val, !.Type = ty]
    IN  Lexed(Append(t, Elem(TIdentifier, d.Name)), Put(v, d.Name, d), d,
              StateVarDeclaration, NoErr)
\* the declaration handler's literal cases: the variable takes the literal
\* and an Identifier token is emitted
Declare(t, v, l, ty, val) ==
    LET d == [l EXCEPT !.Value = val, !.Type = ty]
    IN  Lexed(Append(t, Elem(TIdentifier, d.Name)), Put(v, d.Name, d), d,
              StateNormal, NoErr)

\* stateMachine.HandleToken[StateVarDeclaration]
HandleVarDeclaration(t, v, l, u) ==
    IF DOMAIN v = {} THEN Lexed(t, v, l, StateNormal, NoErr)
    ELSE IF operatorRegex(u)
    THEN Lexed(Append(t, Elem(TOperator, operatorMap(Join(u)))), v, l, StateNormal, NoErr)
    ELSE IF integerRegex(u) THEN Declare(t, v, l, TInt, Atoi(u))
    ELSE IF floatRegex(u) THEN Declare(t, v, l, TFloat, ParseFloat(u))
    ELSE IF stringRegex(u) THEN Declare(t, v, l, TString, Join(TrimQuotes(u)))
    ELSE IF boolRegex(u) THEN Declare(t, v, l, TBool, Join(u) = "true")
    ELSE Lexed(<<>>, NoVars, l, StateVarDeclaration, InvalidType)

\* the loop's turn with a unit that is refused skipped instead
TokenizePartSkipsRefused(t, v, l, st, u) ==
    LET r == IF Exists(v, Join(u)) THEN Lexed(<<>>, NoVars, l, st, VariableRedeclared)
             ELSE IF varNameRegex(u)
             THEN IF Exists(v, Join(Tail(u))) THEN Lexed(t, v, l, st, NoErr)
                  ELSE LET d == Variable(TIdentifier, Nil, Join(Tail(u)), FALSE)
                       IN  Lexed(t, Put(v, d.Name, d), d, StateVarDeclaration, NoErr)
             ELSE IF st = StateNormal THEN HandleNormal(t, v, l, u)
             ELSE HandleVarDeclaration(t, v, l, u)
    IN  IF r.err # NoErr THEN Lexed(t, v, l, st, NoErr) ELSE r
\* the loop's turn with a declaration of a declared name made afresh
TokenizePartDeclaresAgain(t, v, l, st, u) ==
    IF varNameRegex(u)
    THEN LET d == Variable(TIdentifier, Nil, Join(Tail(u)), FALSE)
         IN  Lexed(t, Put(v, d.Name, d), d, StateVarDeclaration, NoErr)
    ELSE IF st = StateNormal THEN HandleNormal(t, v, l, u)
    ELSE HandleVarDeclaration(t, v, l, u)
\* one turn of Tokenize's loop over the units of the input
TokenizePart(t, v, l, st, u) ==
    IF Exists(v, Join(u)) THEN Lexed(<<>>, NoVars, l, st, VariableRedeclared)
    ELSE IF varNameRegex(u)
    THEN IF Exists(v, Join(Tail(u))) THEN Lexed(t, v, l, st, NoErr)
         ELSE LET d == Variable(TIdentifier, Nil, Join(Tail(u)), FALSE)
              IN  Lexed(t, Put(v, d.Name, d), d, StateVarDeclaration, NoErr)
    ELSE IF st = StateNormal THEN HandleNormal(t, v, l, u)
    ELSE HandleVarDeclaration(t, v, l, u)

\* Tokenize on a whole input, given as its units: the loop runs until the
\* units are exhausted or a turn returns an error
RECURSIVE Tokenize(_)
Tokenize(parts) ==
    IF parts = <<>> THEN Lexed(<<>>, NoVars, ZeroVariable, StateNormal, NoErr)
    ELSE LET r == Tokenize(SubSeq(parts, 1, Len(parts) - 1))
         IN  IF r.err # NoErr THEN r
             ELSE TokenizePart(r.tokens, r.variables, r.last, r.state,
                               parts[Len(parts)])

\* A stack the embedding program has filled to capacity with Push calls
\* before the modelled window opens: an integer, a text, a boolean, ...
Prepared ==
    [i \in 1..MaxStackSize |->
        CASE i % 3 = 1 -> Elem(TInt, -3)
          [] i % 3 = 2 -> Elem(TString, "b")
          [] OTHER -> Elem(TBool, TRUE)]

\* The stacks the modelled window opens with: empty, full, and one on which
\* the embedding program has pushed two references to x
InitStacks ==
    { <<>>, Prepared, << Elem(TIdentifier, "x"), Elem(TIdentifier, "x") >> }

\* NewGorth, and the table main assigns before it runs the program
Init ==
    /\ ExecStack \in InitStacks
    /\ VariableMap \in InitTables
    /\ StrictMode \in BOOLEAN
    /\ pc = "idle"
    /\ err = NoErr
    /\ steps = 0
    /\ lastOp = "NewGorth"
    /\ prevStack = ExecStack
    /\ prevVars = VariableMap
    /\ tokens = <<>>
    /\ variables = NoVars
    /\ lastAddedVariable = ZeroVariable
    /\ state = StateNormal
    /\ program = <<>>

Callable == pc \in {"idle", "returned"}

\* a public method called by the embedding program: it returns r.err
Method(op, r) ==
    /\ Callable
    /\ steps < MaxSteps
    /\ r.err # Unmodelled
    /\ ExecStack' = r.stack
    /\ VariableMap' = r.vars
    /\ pc' = IF r.err = Panicked THEN "panicked" ELSE "idle"
    /\ err' = r.err
    /\ steps' = steps + 1
    /\ lastOp' = op
    /\ prevStack' = ExecStack
    /\ prevVars' = VariableMap
    /\ UNCHANGED <<StrictMode, tokens, variables,
                 lastAddedVariable, state, program>>

Push ==
    \E t \in PushTypes : \E v \in LitsOf(t) :
        Method("Push",
               Ret(PushTo(ExecStack, Elem(t, v)), VariableMap, PushErr(ExecStack)))

PopCall == Method("Pop", Pop(ExecStack, VariableMap))

PeekCall == Method("Peek", Peek(ExecStack, VariableMap))

\* an ExecuteProgram that empties the stack when it is entered
CallClears ==
    /\ Callable
    /\ steps < MaxSteps
    /\ pc' = "running"
    /\ err' = NoErr
    /\ lastOp' = "ExecuteProgram"
    /\ ExecStack' = <<>>
    /\ prevStack' = ExecStack
    /\ prevVars' = VariableMap
    /\ UNCHANGED <<VariableMap, StrictMode, steps, tokens, variables,
                 lastAddedVariable, state, program>>

\* ExecuteProgram is entered
Call ==
    /\ Callable
    /\ steps < MaxSteps
    /\ pc' = "running"
    /\ err' = NoErr
    /\ lastOp' = "ExecuteProgram"
    /\ prevStack' = ExecStack
    /\ prevVars' = VariableMap
    /\ UNCHANGED <<ExecStack, VariableMap, StrictMode, steps, tokens, variables,
                 lastAddedVariable, state, program>>

\* one turn of ExecuteProgram's loop on an Operator token: the method runs
\* and a non-nil error is returned at once
Step(op, r) ==
    /\ pc = "running"
    /\ steps < MaxSteps
    /\ r.err # Unmodelled
    /\ ExecStack' = r.stack
    /\ VariableMap' = r.vars
    /\ pc' = CASE r.err = NoErr -> "running"
               [] r.err = Panicked -> "panicked"
               [] OTHER -> "returned"
    /\ err' = r.err
    /\ steps' = steps + 1
    /\ lastOp' = op
    /\ prevStack' = ExecStack
    /\ prevVars' = VariableMap
    /\ UNCHANGED <<StrictMode, tokens, variables,
                 lastAddedVariable, state, program>>

\* a token that is no Operator is pushed as it is
ExecPush ==
    \E t \in PushTypes : \E v \in LitsOf(t) :
        Step("PUSH",
             Ret(PushTo(ExecStack, Elem(t, v)), VariableMap, PushErr(ExecStack)))

ExecAdd == Step("ADD_OP", Add(ExecStack, VariableMap))
ExecSub == Step("SUB_OP", Sub(ExecStack, VariableMap))
ExecMul == Step("MUL_OP", Mul(ExecStack, VariableMap))
ExecDiv == Step("DIV_OP", Div(ExecStack, VariableMap))
ExecMod == Step("MOD_OP", Mod(ExecStack, VariableMap))
ExecExp == Step("EXP_OP", Exp(ExecStack, VariableMap))
ExecInc == Step("INC_OP", Inc(ExecStack, VariableMap))
ExecDec == Step("DEC_OP", Dec(ExecStack, VariableMap))
ExecSwap == Step("SWAP_OP", Swap(ExecStack, VariableMap))
ExecDup == Step("DUP_OP", Dup(ExecStack, VariableMap))
ExecDrop == Step("DROP_OP", Drop(ExecStack, VariableMap))
ExecDump == Step("DUMP_OP", Dump(ExecStack, VariableMap))
ExecRot == Step("ROT_OP", Rot(ExecStack, VariableMap))
ExecPrint == Step("PRINT_OP", PrintOp(ExecStack, VariableMap))
ExecAnd == Step("AND_OP", And(ExecStack, VariableMap))
ExecOr == Step("OR_OP", Or(ExecStack, VariableMap))
ExecNot == Step("NOT_OP", Not(ExecStack, VariableMap))
ExecEqual == Step("EQUAL_OP", Equal(ExecStack, VariableMap))
ExecNotEqual == Step("NOT_EQUAL_OP", NotEqual(ExecStack, VariableMap))
ExecEqualType == Step("EQUAL_TYP_OP", EqualType(ExecStack, VariableMap))
ExecGreaterThan == Step("GT_THAN_OP", GreaterThan(ExecStack, VariableMap))
ExecLessThan == Step("LS_THAN_OP", LessThan(ExecStack, VariableMap))
ExecGreaterThanEqual == Step("GT_THAN_EQ_OP", GreaterThanEqual(ExecStack, VariableMap))
ExecLessThanEqual == Step("LS_THAN_EQ_OP", LessThanEqual(ExecStack, VariableMap))
ExecVarAssign == Step("VAR_ASSIGN_OP", VarAssign(ExecStack, VariableMap))

\* the end-of-program check with the strict flag ignored
EndCheckAlways(strict, s) == IF Len(s) > 0 THEN UnconsumedStack ELSE NoErr
\* what ExecuteProgram returns once the loop is over
EndCheck(strict, s) ==
    IF strict /\ Len(s) > 0 THEN UnconsumedStack ELSE NoErr

\* the program is exhausted: the strict-mode check, then return nil
ProgramEnd ==
    /\ pc = "running"
    /\ program = <<>>
    /\ pc' = "returned"
    /\ err' = EndCheck(StrictMode, ExecStack)
    /\ lastOp' = "END"
    /\ prevStack' = ExecStack
    /\ prevVars' = VariableMap
    /\ UNCHANGED <<ExecStack, VariableMap, StrictMode, steps, tokens, variables,
                 lastAddedVariable, state, program>>

Next ==
    \/ Push \/ PopCall \/ PeekCall
    \/ Call \/ ProgramEnd \/ ExecPush
    \/ ExecAdd \/ ExecSub \/ ExecMul \/ ExecDiv \/ ExecMod \/ ExecExp
    \/ ExecInc \/ ExecDec
    \/ ExecSwap \/ ExecDup \/ ExecDrop \/ ExecDump \/ ExecRot \/ ExecPrint
    \/ ExecAnd \/ ExecOr \/ ExecNot
    \/ ExecEqual \/ ExecNotEqual \/ ExecEqualType
    \/ ExecGreaterThan \/ ExecLessThan \/ ExecGreaterThanEqual \/ ExecLessThanEqual
    \/ ExecVarAssign

Spec == Init /\ [][Next]_vars

\* ============================================================ the program
\* main: Tokenize the joined lines, NewGorth, g.VariableMap = variables,
\* ExecuteProgram(program)

\* The units Tokenize's splitter finds in the inputs of the model, each a
\* sequence of characters
Units ==
    { <<"-", "3">>, <<"2">>, <<"\"", "b", "\"">>, <<"+">>, <<"+", "+">>, <<"=">>,
      <<"?">>,
      <<"d", "e", "f">>, <<"c", "o", "n", "s", "t">>,
      <<"/", "x">>, <<"/", "y">>, <<"_", "x">>, <<"x">> }

MainInit ==
    /\ ExecStack = <<>>
    /\ VariableMap = NoVars
    /\ StrictMode \in BOOLEAN
    /\ pc = "lexing"
    /\ err = NoErr
    /\ steps = 0
    /\ lastOp = "main"
    /\ prevStack = <<>>
    /\ prevVars = NoVars
    /\ tokens = <<>>
    /\ variables = NoVars
    /\ lastAddedVariable = ZeroVariable
    /\ state = StateNormal
    /\ program = <<>>

\* Tokenize takes the next unit of the input; an error ends main
LexPart ==
    /\ pc = "lexing"
    /\ steps < MaxParts
    /\ \E u \in Units :
        LET r == TokenizePart(tokens, variables, lastAddedVariable, state, u)
        IN  /\ tokens' = r.tokens
            /\ variables' = r.variables
            /\ lastAddedVariable' = r.last
            /\ state' = r.state
            /\ err' = r.err
            /\ pc' = IF r.err = NoErr THEN "lexing" ELSE "lexfailed"
            /\ lastOp' = Join(u)
    /\ steps' = steps + 1
    /\ prevStack' = tokens
    /\ prevVars' = variables
    /\ UNCHANGED <<ExecStack, VariableMap, StrictMode, program>>

\* the input is exhausted: Tokenize returns tokens and variables (kept as
\* main's locals; Tokenize's own locals are gone), main makes the engine,
\* hands it the table and enters ExecuteProgram
Run ==
    /\ pc = "lexing"
    /\ ExecStack' = <<>>
    /\ VariableMap' = variables
    /\ program' = tokens
    /\ pc' = "running"
    /\ err' = NoErr
    /\ lastOp' = "ExecuteProgram"
    /\ prevStack' = <<>>
    /\ prevVars' = variables
    /\ steps' = 0
    /\ lastAddedVariable' = ZeroVariable
    /\ state' = StateNormal
    /\ UNCHANGED <<StrictMode, tokens, variables>>

\* the switch with an Identifier token resolved when it is pushed
ExecResolvesAtPush(op, s, vm) ==
    IF op.Type = TIdentifier /\ Exists(vm, op.Value)
    THEN Ret(PushTo(s, Elem(vm[op.Value].Type, vm[op.Value].Value)), vm, PushErr(s))
    ELSE IF op.Type # TOperator THEN Ret(PushTo(s, op), vm, PushErr(s))
    ELSE CASE op.Value = "ADD_OP" -> Add(s, vm)
           [] op.Value = "INC_OP" -> Inc(s, vm)
           [] op.Value = "VAR_ASSIGN_OP" -> VarAssign(s, vm)
           [] OTHER -> Ret(s, vm, NoErr)
\* ExecuteProgram's switch on one token
Exec(op, s, vm) ==
    IF op.Type # TOperator THEN Ret(PushTo(s, op), vm, PushErr(s))
    ELSE CASE op.Value = "ADD_OP" -> Add(s, vm)
           [] op.Value = "SUB_OP" -> Sub(s, vm)
           [] op.Value = "MUL_OP" -> Mul(s, vm)
           [] op.Value = "DIV_OP" -> Div(s, vm)
           [] op.Value = "MOD_OP" -> Mod(s, vm)
           [] op.Value = "EXP_OP" -> Exp(s, vm)
           [] op.Value = "INC_OP" -> Inc(s, vm)
           [] op.Value = "DEC_OP" -> Dec(s, vm)
           [] op.Value = "SWAP_OP" -> Swap(s, vm)
           [] op.Value = "DUP_OP" -> Dup(s, vm)
           [] op.Value = "DROP_OP" -> Drop(s, vm)
           [] op.Value = "DUMP_OP" -> Dump(s, vm)
           [] op.Value = "PRINT_OP" -> PrintOp(s, vm)
           [] op.Value = "AND_OP" -> And(s, vm)
           [] op.Value = "OR_OP" -> Or(s, vm)
           [] op.Value = "NOT_OP" -> Not(s, vm)
           [] op.Value = "EQUAL_OP" -> Equal(s, vm)
           [] op.Value = "NOT_EQUAL_OP" -> NotEqual(s, vm)
           [] op.Value = "EQUAL_TYP_OP" -> EqualType(s, vm)
           [] op.Value = "GT_THAN_OP" -> GreaterThan(s, vm)
           [] op.Value = "LS_THAN_OP" -> LessThan(s, vm)
           [] op.Value = "GT_THAN_EQ_OP" -> GreaterThanEqual(s, vm)
           [] op.Value = "LS_THAN_EQ_OP" -> LessThanEqual(s, vm)
           [] op.Value = "ROT_OP" -> Rot(s, vm)
           [] op.Value = "VAR_ASSIGN_OP" -> VarAssign(s, vm)
           [] OTHER -> Ret(s, vm, NoErr)

\* a loop that goes on to the next token after a token has failed
RunTokenContinues ==
    /\ pc = "running"
    /\ program # <<>>
    /\ LET op == Head(program)
           r == Exec(op, ExecStack, VariableMap)
       IN  /\ r.err # Unmodelled
           /\ ExecStack' = r.stack
           /\ VariableMap' = r.vars
           /\ pc' = IF r.err = Panicked THEN "panicked" ELSE "running"
           /\ err' = r.err
           /\ lastOp' = IF op.Type = TOperator THEN op.Value ELSE "PUSH"
    /\ program' = Tail(program)
    /\ prevStack' = ExecStack
    /\ prevVars' = VariableMap
    /\ UNCHANGED <<StrictMode, steps, tokens, variables, lastAddedVariable, state>>

\* one turn of ExecuteProgram's loop on the program main passed
RunToken ==
    /\ pc = "running"
    /\ program # <<>>
    /\ LET op == Head(program)
           r == Exec(op, ExecStack, VariableMap)
       IN  /\ r.err # Unmodelled
           /\ ExecStack' = r.stack
           /\ VariableMap' = r.vars
           /\ pc' = CASE r.err = NoErr -> "running"
                      [] r.err = Panicked -> "panicked"
                      [] OTHER -> "returned"
           /\ err' = r.err
           /\ lastOp' = IF op.Type = TOperator THEN op.Value ELSE "PUSH"
    /\ program' = Tail(program)
    /\ prevStack' = ExecStack
    /\ prevVars' = VariableMap
    /\ UNCHANGED <<StrictMode, steps, tokens, variables, lastAddedVariable, state>>

MainNext == LexPart \/ Run \/ RunToken \/ ProgramEnd

MainSpec == MainInit /\ [][MainNext]_vars

\* main with its loop running on: ExecuteProgram is a sequential for loop
\* over its tokens, so a turn that can be taken is taken, and so is the
\* return that follows the last one
RunSpec ==
    /\ MainInit
    /\ [][(steps < MaxRunParts /\ LexPart) \/ Run \/ RunToken \/ ProgramEnd]_vars
    /\ WF_vars(RunToken) /\ WF_vars(ProgramEnd)

\* ============================================================ the lexer
\* Tokenize alone, on inputs over a wider vocabulary: every kind of literal,
\* a text with a blank inside, operators that begin like a number, the
\* operator pattern's word that the operator table lacks, two names
WideUnits ==
    Units \cup
    { <<"1", ".", "5">>, <<"t", "r", "u", "e">>, <<"f", "a", "l", "s", "e">>,
      <<"\"", "a", " ", "b", "\"">>, <<"-">>, <<"-", "-">>, <<"n", "e", "g">>,
      <<"_", "y">>, <<"y">> }

\* Tokenize takes the next unit of such an input
LexWide ==
    /\ pc = "lexing"
    /\ steps < MaxLexParts
    /\ \E u \in WideUnits :
        LET r == TokenizePart(tokens, variables, lastAddedVariable, state, u)
        IN  /\ tokens' = r.tokens
            /\ variables' = r.variables
            /\ lastAddedVariable' = r.last
            /\ state' = r.state
            /\ err' = r.err
            /\ pc' = IF r.err = NoErr THEN "lexing" ELSE "lexfailed"
            /\ lastOp' = Join(u)
    /\ steps' = steps + 1
    /\ prevStack' = tokens
    /\ prevVars' = variables
    /\ UNCHANGED <<ExecStack, VariableMap, StrictMode, program>>

LexSpec == MainInit /\ [][LexWide]_vars

\* =============================================================== properties
\* The operands the last token or call found: the first-popped (top) item,
\* the second-popped item and the stack below them
Operand1 == prevStack[Len(prevStack)]
Operand2 == prevStack[Len(prevStack) - 1]
Below == SubSeq(prevStack, 1, Len(prevStack) - 2)
AtCapacity == Len(prevStack) = MaxStackSize
Pushes == {"Push", "PUSH"}
NeedsOne ==
    {"Pop", "Peek", "INC_OP", "DEC_OP", "DUP_OP", "DROP_OP", "DUMP_OP",
     "PRINT_OP", "NOT_OP"}
Relational == {"GT_THAN_OP", "LS_THAN_OP", "GT_THAN_EQ_OP", "LS_THAN_EQ_OP"}
NeedsTwo ==
    {"ADD_OP", "SUB_OP", "MUL_OP", "DIV_OP", "MOD_OP", "EXP_OP", "SWAP_OP",
     "AND_OP", "OR_OP", "EQUAL_OP", "NOT_EQUAL_OP", "EQUAL_TYP_OP",
     "VAR_ASSIGN_OP"}
    \cup Relational
TooShort ==
    \/ lastOp \in NeedsOne /\ Len(prevStack) < 1
    \/ lastOp \in NeedsTwo /\ Len(prevStack) < 2
    \/ lastOp = "ROT_OP" /\ Len(prevStack) < 3

\* C1: after any sequence of Push, Pop and executed tokens the stack holds
\* at most MaxStackSize items.
C1_StackWithinCapacity == Len(ExecStack) <= MaxStackSize

\* a push was attempted on a full stack, and the stack is still full
C1_Witness ==
    /\ AtCapacity
    /\ lastOp \in Pushes
    /\ Len(ExecStack) = MaxStackSize

\* C2: every push attempted on a full stack, by Push, by a literal or
\* Identifier token or by dup, fails with StackOverflow and leaves the stack
\* as it was.
C2_PushAtCapacityFails ==
    (AtCapacity /\ lastOp \in Pushes \cup {"DUP_OP"})
        => (err = StackOverflow /\ ExecStack = prevStack)

\* C3: Pop, Peek and every operator, met with fewer items than they need
\* (1, 2, or 3 for rot), fail with StackUnderflow, and ExecuteProgram
\* returns that failure.
C3_ShortStackFails ==
    TooShort => (err = StackUnderflow /\ pc # "running")

\* C4: ExecuteProgram always comes back to its caller, with nil or with an
\* error: no token ends in a run-time panic.
C4_AlwaysReturns == pc # "panicked"

\* C5: when the tokens are used up, ExecuteProgram returns UnconsumedStack
\* if StrictMode is set and the stack is not empty, and nil if StrictMode is
\* unset, whatever the stack holds.
C5_EndOfProgram ==
    lastOp = "END" =>
        /\ pc = "returned"
        /\ (StrictMode /\ ExecStack # <<>>) => err = UnconsumedStack
        /\ ~StrictMode => err = NoErr

\* a strict run ends over two leftover items
C5_Witness ==
    /\ lastOp = "END"
    /\ StrictMode
    /\ Len(ExecStack) = 2
    /\ err = UnconsumedStack


\* The operators whose operand order shows in the result
Ordered == {"SUB_OP", "DIV_OP", "MOD_OP"} \cup Relational
Ints == -MaxAbs..MaxAbs
\* q and r are the quotient and the remainder of a by b: a = q*b + r with
\* r smaller than b and carrying the sign of a
Divides(a, b, q, r) == a = q * b + r /\ Abs(r) < Abs(b) /\ r * a >= 0
\* what `a b OP` has to leave for int literals a, b
Infix(op, a, b) ==
    CASE op = "SUB_OP" -> {Elem(TInt, a - b)}
      [] op = "DIV_OP" ->
           {Elem(TInt, q) : q \in {q \in Ints : \E r \in Ints : Divides(a, b, q, r)}}
      [] op = "MOD_OP" ->
           {Elem(TInt, r) : r \in {r \in Ints : \E q \in Ints : Divides(a, b, q, r)}}
      [] op = "GT_THAN_OP" -> {Elem(TBool, a > b)}
      [] op = "LS_THAN_OP" -> {Elem(TBool, a < b)}
      [] op = "GT_THAN_EQ_OP" -> {Elem(TBool, a >= b)}
      [] op = "LS_THAN_EQ_OP" -> {Elem(TBool, a <= b)}

\* C6: on int literals a (second-popped) and b (first-popped), `a b -`
\* leaves a-b, `a b /` and `a b %` with b non-zero leave the integer
\* quotient and the remainder of a by b, and the relational operators leave
\* the boolean a OP b; both operands are consumed.
C6_IntLiteralOrder ==
    ( /\ lastOp \in Ordered
      /\ Len(prevStack) >= 2
      /\ Operand1.Type = TInt
      /\ Operand2.Type = TInt
      /\ lastOp \in {"DIV_OP", "MOD_OP"} => Operand1.Value # 0 )
    => /\ err = NoErr
       /\ \E e \in Infix(lastOp, Operand2.Value, Operand1.Value) :
              ExecStack = Append(Below, e)

\* -3 2 / has left -1
C6_Witness ==
    /\ lastOp = "DIV_OP"
    /\ Len(prevStack) >= 2
    /\ Operand2 = Elem(TInt, -3)
    /\ Operand1 = Elem(TInt, 2)
    /\ err = NoErr
    /\ ExecStack = Append(Below, Elem(TInt, -1))

\* an operand that is an int: a literal, or an Identifier bound to an int
IntValued(x) ==
    \/ x.Type = TInt
    \/ /\ x.Type = TIdentifier
       /\ Exists(prevVars, x.Value)
       /\ VType(prevVars, x) = TInt
\* the int literal that stands for it
AsLiteral(x) ==
    IF x.Type = TIdentifier THEN Elem(TInt, VVal(prevVars, x)) ELSE x
OnLiterals(op) ==
    LET s == Below \o <<AsLiteral(Operand2), AsLiteral(Operand1)>>
    IN  CASE op = "SUB_OP" -> Sub(s, prevVars)
          [] op = "DIV_OP" -> Div(s, prevVars)
          [] op = "MOD_OP" -> Mod(s, prevVars)
          [] op = "GT_THAN_OP" -> GreaterThan(s, prevVars)
          [] op = "LS_THAN_OP" -> LessThan(s, prevVars)
          [] op = "GT_THAN_EQ_OP" -> GreaterThanEqual(s, prevVars)
          [] op = "LS_THAN_EQ_OP" -> LessThanEqual(s, prevVars)

\* C7: for Sub, Div, Mod and the relational operators, an Identifier bound
\* to an int variable in place of an int literal of the same value, in
\* either position, gives the same pushed result or the same error.
C7_IdentifierLikeLiteral ==
    ( /\ lastOp \in Ordered
      /\ Len(prevStack) >= 2
      /\ IntValued(Operand1)
      /\ IntValued(Operand2) )
    => /\ err = OnLiterals(lastOp).err
       /\ ExecStack = OnLiterals(lastOp).stack

Literal(x) == x.Type \in {TInt, TFloat, TString, TBool}
\* a number in halves, as the model keeps floats
Halves(x) == IF x.Type = TInt THEN 2 * x.Value ELSE x.Value

\* C8: Add on two literals pushes the int sum for int+int, a float for
\* float+float and for an int beside a float, a text for text+text, and
\* fails with TypeMismatch for every other pair of kinds.
C8_AddLiterals ==
    ( /\ lastOp = "ADD_OP"
      /\ Len(prevStack) >= 2
      /\ Literal(Operand1)
      /\ Literal(Operand2) )
    => LET t1 == Operand1.Type
           t2 == Operand2.Type
       IN  CASE t1 = TInt /\ t2 = TInt ->
                  /\ err = NoErr
                  /\ ExecStack =
                       Append(Below, Elem(TInt, Operand2.Value + Operand1.Value))
             [] {t1, t2} \subseteq {TInt, TFloat} /\ TFloat \in {t1, t2} ->
                  /\ err = NoErr
                  /\ ExecStack =
                       Append(Below,
                              Elem(TFloat, Halves(Operand2) + Halves(Operand1)))
             [] t1 = TString /\ t2 = TString ->
                  /\ err = NoErr
                  /\ Len(ExecStack) = Len(Below) + 1
                  /\ Top(ExecStack).Type = TString
                  /\ Len(Top(ExecStack).Value) =
                       Len(Operand1.Value) + Len(Operand2.Value)
             [] OTHER -> err = TypeMismatch

\* 2 1.5 + has left 3.5
C8_Witness ==
    /\ lastOp = "ADD_OP"
    /\ Len(prevStack) >= 2
    /\ Operand2 = Elem(TInt, 2)
    /\ Operand1 = Elem(TFloat, 3)
    /\ err = NoErr
    /\ ExecStack = Append(Below, Elem(TFloat, 7))

\* an operand that is a text: a literal, or an Identifier bound to a text
TextValued(x) ==
    \/ x.Type = TString
    \/ /\ x.Type = TIdentifier
       /\ Exists(prevVars, x.Value)
       /\ VType(prevVars, x) = TString
TextOf(x) == IF x.Type = TIdentifier THEN VVal(prevVars, x) ELSE x.Value

\* C9: for text operands a (second-popped) and b (first-popped), literals
\* or Identifiers bound to text variables, `a b +` pushes the text of b
\* followed by the text of a.
C9_TextOrder ==
    ( /\ lastOp = "ADD_OP"
      /\ Len(prevStack) >= 2
      /\ TextValued(Operand1)
      /\ TextValued(Operand2) )
    => /\ err = NoErr
       /\ ExecStack =
            Append(Below, Elem(TString, TextOf(Operand1) \o TextOf(Operand2)))

\* C10: Div with the integer zero as divisor (the first-popped operand)
\* under an int dividend fails with DivisionByZero.
C10_DivByZero ==
    ( /\ lastOp = "DIV_OP"
      /\ Len(prevStack) >= 2
      /\ Operand1 = Elem(TInt, 0)
      /\ Operand2.Type = TInt )
    => (err = DivisionByZero /\ pc = "returned")


\* an operand whose kind is not int: a float, text or boolean literal, or
\* an Identifier bound to a variable that is no int
NonInt(x) ==
    \/ x.Type \in {TFloat, TString, TBool}
    \/ /\ x.Type = TIdentifier
       /\ Exists(prevVars, x.Value)
       /\ VType(prevVars, x) # TInt
Declared(x) == x.Type = TIdentifier => Exists(prevVars, x.Value)

\* C11: Mod on two int literals returns DivisionByZero when the divisor
\* (first-popped) is zero and otherwise pushes the remainder of the
\* second-popped by the first-popped; Mod with an operand of a kind other
\* than int (every Identifier being declared) returns TypeMismatch.
C11_Mod ==
    (lastOp = "MOD_OP" /\ Len(prevStack) >= 2) =>
        /\ (Operand1.Type = TInt /\ Operand2.Type = TInt) =>
              IF Operand1.Value = 0
              THEN err = DivisionByZero /\ pc = "returned"
              ELSE /\ err = NoErr
                   /\ \E r \in Ints :
                        /\ \E q \in Ints :
                             Divides(Operand2.Value, Operand1.Value, q, r)
                        /\ ExecStack = Append(Below, Elem(TInt, r))
        /\ ( /\ NonInt(Operand1) \/ NonInt(Operand2)
             /\ Declared(Operand1)
             /\ Declared(Operand2) )
           => (err = TypeMismatch /\ pc = "returned")

\* 2 0 % has returned the division-by-zero error
C11_Witness ==
    /\ lastOp = "MOD_OP"
    /\ Len(prevStack) >= 2
    /\ Operand2 = Elem(TInt, 2)
    /\ Operand1 = Elem(TInt, 0)
    /\ err = DivisionByZero


\* C12: no executed token changes the value of a variable that is const.
C12_ConstValueFixed ==
    \A n \in DOMAIN prevVars :
        prevVars[n].Const =>
            (n \in DOMAIN VariableMap /\ VariableMap[n].Value = prevVars[n].Value)


\* VarAssign has found its two operands: the target under the new value
Assigning == lastOp = "VAR_ASSIGN_OP" /\ Len(prevStack) >= 2
Target == Operand2
NewValue == Operand1
TargetDeclared == Target.Type = TIdentifier /\ Exists(prevVars, Target.Value)
TargetVar == prevVars[Target.Value]

\* C13: VarAssign fails when its target is no Identifier, returns
\* UndeclaredVariable for a target that is not in the table,
\* ConstReassignment for a const target, and TypeMismatch when the new
\* value's kind is not the kind of the (non-const) target; whenever it
\* fails the table is as it was.
C13_VarAssignFailures ==
    Assigning =>
        /\ Target.Type # TIdentifier => err \notin {NoErr, Panicked}
        /\ (Target.Type = TIdentifier /\ ~Exists(prevVars, Target.Value))
              => err = UndeclaredVariable
        /\ (TargetDeclared /\ TargetVar.Const) => err = ConstReassignment
        /\ ( /\ TargetDeclared
             /\ ~TargetVar.Const
             /\ TargetVar.Type \in ValueTypes
             /\ NewValue.Type # TargetVar.Type )
           => err = TypeMismatch
        /\ err # NoErr => (VariableMap = prevVars /\ pc = "returned")

\* an assignment to the const x has been refused
C13_Witness ==
    /\ Assigning
    /\ TargetDeclared
    /\ TargetVar.Const
    /\ NewValue.Type = TargetVar.Type
    /\ err = ConstReassignment
    /\ VariableMap = prevVars


\* C14: a variable that has a kind keeps it under every executed token,
\* and an assignment of a value of another kind is refused with the table
\* left as it was.
C14_KindFixed ==
    /\ \A n \in DOMAIN prevVars :
          prevVars[n].Type \in ValueTypes =>
              (n \in DOMAIN VariableMap /\ VariableMap[n].Type = prevVars[n].Type)
    /\ ( /\ Assigning
         /\ TargetDeclared
         /\ TargetVar.Type \in ValueTypes
         /\ NewValue.Type # TargetVar.Type )
       => (err # NoErr /\ VariableMap = prevVars)

\* a text offered to a non-const int variable has been refused
C14_Witness ==
    /\ Assigning
    /\ TargetDeclared
    /\ ~TargetVar.Const
    /\ TargetVar.Type = TInt
    /\ NewValue.Type = TString
    /\ err = TypeMismatch
    /\ VariableMap[Target.Value].Type = TInt


\* The variable table in force: Tokenize's while the input is lexed, the
\* engine's once main has handed it over
Lexing == pc \in {"lexing", "lexfailed"}
LexStep == Lexing /\ lastOp # "main"
CurVars == IF Lexing THEN variables ELSE VariableMap

\* C15: once a variable's Const flag is true it is true after every later
\* lexical unit and every executed token, for as long as the table lives
\* (a failed lex returns no table)
C15_ConstPermanent ==
    \A n \in DOMAIN prevVars :
        (prevVars[n].Const /\ pc # "lexfailed")
            => (Exists(CurVars, n) /\ CurVars[n].Const)
\* a constant met an assignment, which was refused and left it constant
C15_Witness ==
    /\ lastOp = "VAR_ASSIGN_OP"
    /\ err = ConstReassignment
    /\ Exists(VariableMap, "x")
    /\ VariableMap["x"].Const

\* C16: a successful VarAssign of the value v to the Identifier x sets x's
\* value to v, keeps x's kind, changes no other variable, removes exactly
\* its two operands from the stack and pushes nothing.
C16_VarAssignEffect ==
    (Assigning /\ err = NoErr) =>
        /\ TargetDeclared
        /\ DOMAIN VariableMap = DOMAIN prevVars
        /\ VariableMap[Target.Value].Value = NewValue.Value
        /\ VariableMap[Target.Value].Type = TargetVar.Type
        /\ \A n \in DOMAIN prevVars :
              n # Target.Value => VariableMap[n] = prevVars[n]
        /\ ExecStack = Below
\* x has been given a new value while another variable and a deeper item stood by
C16_Witness ==
    /\ Assigning
    /\ err = NoErr
    /\ Len(prevStack) = 3
    /\ ExecStack = <<prevStack[1]>>
    /\ VariableMap[Target.Value].Value # TargetVar.Value
    /\ \E n \in DOMAIN prevVars : n # Target.Value


\* Inc or Dec has found its operand
IncOrDec == lastOp \in {"INC_OP", "DEC_OP"} /\ Len(prevStack) >= 1
Delta == IF lastOp = "INC_OP" THEN 1 ELSE -1
IntVariable(x) ==
    x.Type = TIdentifier /\ Exists(prevVars, x.Value) /\ prevVars[x.Value].Type = TInt

\* C18: Inc (Dec) on an int literal n pops it and pushes n+1 (n-1); on an
\* Identifier bound to an int variable it adds (subtracts) 1 to that variable
\* in the table and pushes nothing, so the stack ends one item shorter.
C18_IncDec ==
    IncOrDec =>
        /\ Operand1.Type = TInt =>
              /\ err = NoErr
              /\ ExecStack = Append(Front(prevStack), Elem(TInt, Operand1.Value + Delta))
              /\ VariableMap = prevVars
        /\ IntVariable(Operand1) =>
              /\ err = NoErr
              /\ ExecStack = Front(prevStack)
              /\ VariableMap =
                    [prevVars EXCEPT ![Operand1.Value].Value = @ + Delta]
\* an int variable has been stepped in the table and the stack got shorter
C18_Witness ==
    /\ IncOrDec
    /\ IntVariable(Operand1)
    /\ VariableMap[Operand1.Value].Value = prevVars[Operand1.Value].Value + Delta
    /\ Len(ExecStack) = Len(prevStack) - 1


\* The token ExecuteProgram has just executed, and what an operand is worth
\* when it is popped: a literal its own value, an Identifier the value its
\* variable has in the table at that moment
Executed == ~Lexing /\ Len(program) < Len(tokens) /\ lastOp \notin {"ExecuteProgram", "END"}
CurToken == tokens[Len(tokens) - Len(program)]
IntNow(x) == x.Type = TInt \/ IntVariable(x)
ValueNow(x) == IF x.Type = TIdentifier THEN prevVars[x.Value].Value ELSE x.Value

IntUnits == { u \in Units : integerRegex(u) }
DeclareThenInc(n) ==
    << <<"/", "x">>, n, <<"d", "e", "f">>, <<"_", "x">>, <<"+", "+">> >>
Finished(parts) ==
    /\ lastOp = "END"
    /\ tokens = Tokenize(parts).tokens
    /\ variables = Tokenize(parts).variables

\* C19: lexing and then executing `/x n def _x ++` ends with the table
\* entry x equal to n+1 and with the Identifier x that the declaration
\* emitted as the one item of the stack, which strict mode reports as
\* unconsumed.
C19_DeclareThenInc ==
    \A n \in IntUnits :
        Finished(DeclareThenInc(n)) =>
            /\ VariableMap["x"] = Variable(TInt, Atoi(n) + 1, "x", FALSE)
            /\ ExecStack = << Elem(TIdentifier, "x") >>
            /\ err = IF StrictMode THEN UnconsumedStack ELSE NoErr
\* the program has run to its end and x is n+1
C19_Witness ==
    \E n \in IntUnits :
        /\ Finished(DeclareThenInc(n))
        /\ VariableMap["x"].Value = Atoi(n) + 1
\* C19 as stated: the same run ends with x equal to n+1 and an empty stack
C19_EndsEmpty ==
    \A n \in IntUnits :
        Finished(DeclareThenInc(n)) =>
            /\ VariableMap["x"].Value = Atoi(n) + 1
            /\ ExecStack = <<>>


\* Tokenize has just taken a `/name` unit whose name was a key of its table
Redeclaring ==
    /\ LexStep
    /\ \E u \in Units :
          /\ lastOp = Join(u)
          /\ varNameRegex(u)
          /\ Exists(prevVars, Join(Tail(u)))

\* C20: lexing a `/name` unit when name is already a key of the variable
\* table fails with the redeclaration error.
C20_RedeclarationFails ==
    Redeclaring => (pc = "lexfailed" /\ err = VariableRedeclared)


\* The units that start a declaration and the literal units, with the kind
\* and the value a literal stands for
DeclUnits == { u \in WideUnits : varNameRegex(u) }
LiteralUnits ==
    { u \in WideUnits :
        integerRegex(u) \/ floatRegex(u) \/ stringRegex(u) \/ boolRegex(u) }
KindOf(u) ==
    IF integerRegex(u) THEN TInt
    ELSE IF floatRegex(u) THEN TFloat
    ELSE IF stringRegex(u) THEN TString
    ELSE TBool
ValueOf(u) ==
    IF integerRegex(u) THEN Atoi(u)
    ELSE IF floatRegex(u) THEN ParseFloat(u)
    ELSE IF stringRegex(u) THEN Join(TrimQuotes(u))
    ELSE Join(u) = "true"
\* Tokenize has just taken the unit d, a `/name` whose name its table lacked
Declaring(d) ==
    /\ pc = "lexing"
    /\ lastOp = Join(d)
    /\ ~Exists(prevVars, Join(Tail(d)))

\* C21: the `/name` of an undeclared name emits no token, and the literal
\* that follows it adds the entry name with the literal's kind and value
\* and Const false, emits one Identifier(name) token (the only token of the
\* two units) and leaves the lexer in StateNormal.
C21_DeclarationStep ==
    \A d \in DeclUnits : \A l \in LiteralUnits :
        (Declaring(d) /\ steps' = steps + 1 /\ lastOp' = Join(l)) =>
            LET n == Join(Tail(d))
            IN  /\ err' = NoErr
                /\ variables' =
                      Put(prevVars, n, Variable(KindOf(l), ValueOf(l), n, FALSE))
                /\ tokens' = Append(prevStack, Elem(TIdentifier, n))
                /\ state' = StateNormal
C21_Declaration == [][C21_DeclarationStep]_vars
\* x was declared a float, and the unit after the literal became a token of
\* its own
C21_Witness ==
    /\ pc = "lexing"
    /\ tokens = << Elem(TIdentifier, "x"), Elem(TInt, 2) >>
    /\ variables = Put(NoVars, "x", Variable(TFloat, 3, "x", FALSE))
    /\ state = StateNormal


\* The units no rule of the lexer matches, and the usages `_name`
NoRuleUnits ==
    { u \in WideUnits :
        ~ \/ integerRegex(u) \/ floatRegex(u) \/ stringRegex(u) \/ boolRegex(u)
          \/ operatorRegex(u) \/ keyWordRegex(u) \/ varUsageRegex(u)
          \/ varNameRegex(u) }
UsageUnits == { u \in WideUnits : varUsageRegex(u) }
\* Tokenize has just taken a unit no rule matches, or the usage of a name
\* its table lacked
Unlexable ==
    /\ LexStep
    /\ \/ \E u \in NoRuleUnits : lastOp = Join(u)
       \/ \E u \in UsageUnits : lastOp = Join(u) /\ ~Exists(prevVars, Join(Tail(u)))

\* C22: a unit that matches no rule, or that uses a name not yet in the
\* table, makes Tokenize fail at that unit and return no tokens and no table.
C22_LexFailsWhole ==
    Unlexable =>
        /\ pc = "lexfailed"
        /\ err \in {InvalidToken, UndeclaredVariable, InvalidType, VariableRedeclared}
        /\ tokens = <<>>
        /\ variables = NoVars
\* a unit no rule matches ended a lex that had a token and a variable
C22_Witness ==
    /\ Unlexable
    /\ lastOp = "?"
    /\ err = InvalidToken
    /\ prevStack # <<>>
    /\ DOMAIN prevVars # {}
    /\ tokens = <<>>
    /\ variables = NoVars


\* The operator op has found its two operands
Binop(op) == lastOp = op /\ Len(prevStack) >= 2
\* two items alike in kind and value
Same(a, b) == a.Type = b.Type /\ a.Value = b.Value

\* C23: Equal on two literals pushes true iff they have the same kind and
\* the same value; when the kinds differ it pushes false and does not fail.
C23_EqualLiterals ==
    (Binop("EQUAL_OP") /\ Literal(Operand1) /\ Literal(Operand2)) =>
        /\ err = NoErr
        /\ ExecStack = Append(Below, Elem(TBool, Same(Operand1, Operand2)))
\* literals of two kinds were compared: false, and no error
C23_Witness ==
    /\ Binop("EQUAL_OP")
    /\ Literal(Operand1)
    /\ Literal(Operand2)
    /\ Operand1.Type # Operand2.Type
    /\ err = NoErr
    /\ Top(ExecStack) = Elem(TBool, FALSE)


\* An Identifier whose variable holds a value, and what an operand stands
\* for: a literal itself, such an Identifier the kind and value of its
\* variable
Bound(x) ==
    /\ x.Type = TIdentifier
    /\ Exists(prevVars, x.Value)
    /\ prevVars[x.Value].Type \in ValueTypes
Resolved(x) ==
    IF x.Type = TIdentifier
    THEN Elem(prevVars[x.Value].Type, prevVars[x.Value].Value)
    ELSE x

\* C24: Equal treats an Identifier operand as the value of its variable:
\* with x bound to w, `_x v ==` and `v _x ==` push true iff w and the
\* literal v have the same kind and the same value.
C24_EqualIdentifier ==
    ( /\ Binop("EQUAL_OP")
      /\ \/ Bound(Operand1) /\ Literal(Operand2)
         \/ Literal(Operand1) /\ Bound(Operand2) ) =>
        /\ err = NoErr
        /\ ExecStack =
              Append(Below, Elem(TBool, Same(Resolved(Operand1), Resolved(Operand2))))


\* What Equal does on the stack and the table NotEqual found
EqualHere == Equal(prevStack, prevVars)
PushedOnly(r, b) == r.err = NoErr /\ r.stack = Append(Below, Elem(TBool, b))

\* C25: for every pair of operands, NotEqual replaces them by true iff
\* Equal replaces them by false, and by false iff Equal replaces them by
\* true.
C25_NotEqualNegates ==
    Binop("NOT_EQUAL_OP") =>
        \A b \in BOOLEAN :
            (err = NoErr /\ ExecStack = Append(Below, Elem(TBool, b)))
                <=> PushedOnly(EqualHere, ~b)
\* two items of one kind and different values are unequal
C25_Witness ==
    /\ Binop("NOT_EQUAL_OP")
    /\ Operand1.Type = Operand2.Type
    /\ PushedOnly(EqualHere, FALSE)
    /\ ExecStack = Append(Below, Elem(TBool, TRUE))


\* An operand with a value kind: a literal, or an Identifier of a variable
Kinded(x) == Literal(x) \/ Bound(x)

\* C26: EqualType replaces its two operands by true when they have the
\* same value kind and by false otherwise, an Identifier counting as the
\* kind of its variable.
C26_EqualTypeKinds ==
    (Binop("EQUAL_TYP_OP") /\ Kinded(Operand1) /\ Kinded(Operand2))
        => /\ err = NoErr
           /\ ExecStack = Append(Below,
                  Elem(TBool, Resolved(Operand1).Type = Resolved(Operand2).Type))


\* C27: And and Or replace two operands that resolve to booleans by their
\* conjunction and disjunction, and fail with a type mismatch when an
\* operand resolves to another kind.
C27_AndOr ==
    (/\ Binop("AND_OP") \/ Binop("OR_OP")
     /\ Kinded(Operand1) /\ Kinded(Operand2))
        => LET a == Resolved(Operand1)
               b == Resolved(Operand2)
           IN  IF a.Type = TBool /\ b.Type = TBool
               THEN /\ err = NoErr
                    /\ ExecStack = Append(Below, Elem(TBool,
                           IF lastOp = "AND_OP" THEN a.Value /\ b.Value
                                                ELSE a.Value \/ b.Value))
               ELSE err = TypeMismatch


\* C28: Dump and Print accept the same top items, every literal and every
\* Identifier of a variable, and refuse the same ones with a type
\* mismatch; Dump removes the top item and Print leaves the stack as it
\* was.
C28_DumpPrintAlike ==
    (lastOp \in {"DUMP_OP", "PRINT_OP"} /\ prevStack # <<>>) =>
        /\ Kinded(Operand1) =>
               /\ err = NoErr
               /\ ExecStack = IF lastOp = "DUMP_OP" THEN Front(prevStack)
                                                    ELSE prevStack
        /\ (err = TypeMismatch) <=>
               LET other == IF lastOp = "DUMP_OP"
                            THEN PrintOp(prevStack, prevVars)
                            ELSE Dump(prevStack, prevVars)
               IN  other.err = TypeMismatch


AfterDeclaration ==
    /\ pc = "lexing"
    /\ steps' = steps + 1
    /\ state = StateNormal
    /\ lastAddedVariable.Name \in DOMAIN variables

\* C30: the unit `const` sets the Const flag of the most recently declared
\* variable and changes nothing else: its kind and value, every other
\* variable and the tokens stay as they were. The most recently declared
\* variable is the one lastAddedVariable names: a unit that adds an entry
\* makes it name the new entry, and no other unit renames it.
C30_ConstStep ==
    /\ (AfterDeclaration /\ lastOp' = "const") =>
           LET n == lastAddedVariable.Name
           IN  /\ err' = NoErr
               /\ variables' =
                      [variables EXCEPT ![n] = [variables[n] EXCEPT !.Const = TRUE]]
               /\ tokens' = tokens
    /\ (pc = "lexing" /\ pc' = "lexing") =>
           IF DOMAIN variables' # DOMAIN variables
           THEN DOMAIN variables' = DOMAIN variables \cup {lastAddedVariable'.Name}
           ELSE lastAddedVariable'.Name = lastAddedVariable.Name
C30_Const == [][C30_ConstStep]_vars
\* `/x 2 /y -3 const`: y becomes a constant and x stays as it was
C30_Witness ==
    /\ pc = "lexing"
    /\ lastOp = "const"
    /\ DOMAIN prevVars = {"x", "y"}
    /\ ~prevVars["x"].Const /\ ~prevVars["y"].Const
    /\ variables["y"] = [prevVars["y"] EXCEPT !.Const = TRUE]
    /\ variables["x"] = prevVars["x"]
    /\ prevVars["x"].Type = TInt /\ prevVars["y"].Type = TInt


\* The token each literal and operator unit of the pool stands for
TokenOf(w) ==
    CASE w = "-3" -> Elem(TInt, -3)
      [] w = "2" -> Elem(TInt, 2)
      [] w = "1.5" -> Elem(TFloat, 3)
      [] w = "\"b\"" -> Elem(TString, "b")
      [] w = "\"a b\"" -> Elem(TString, "a b")
      [] w = "true" -> Elem(TBool, TRUE)
      [] w = "false" -> Elem(TBool, FALSE)
      [] w = "+" -> Elem(TOperator, "ADD_OP")
      [] w = "++" -> Elem(TOperator, "INC_OP")
      [] w = "-" -> Elem(TOperator, "SUB_OP")
      [] w = "--" -> Elem(TOperator, "DEC_OP")
      [] w = "=" -> Elem(TOperator, "VAR_ASSIGN_OP")
TokenUnits ==
    {"-3", "2", "1.5", "\"b\"", "\"a b\"", "true", "false", "+", "++", "-",
     "--", "="}

\* C31: outside a declaration each literal or operator unit appends exactly
\* one token after those of the units before it: an int for `-3`, a float
\* for `1.5`, the text without its quotes and with its inner blank for
\* `"a b"`, a bool for `true`, an operator for `-`, `--` and `=`; the table
\* is left alone.
C31_OneTokenStep ==
    (/\ pc = "lexing"
     /\ steps' = steps + 1
     /\ state = StateNormal
     /\ lastOp' \in TokenUnits)
        => /\ err' = NoErr
           /\ tokens' = Append(tokens, TokenOf(lastOp'))
           /\ variables' = variables
           /\ state' = StateNormal
C32_DupStep ==
    /\ (/\ pc = "running"
        /\ lastOp' = "DUP_OP"
        /\ steps' = steps + 1
        /\ Len(ExecStack) \in 1..(MaxStackSize - 1))
           => /\ err' = NoErr
              /\ ExecStack' = Append(ExecStack, Top(ExecStack))
    /\ (/\ pc = "running"
        /\ lastOp = "DUP_OP"
        /\ Len(prevStack) \in 1..(MaxStackSize - 1)
        /\ Top(prevStack).Type = TInt
        /\ lastOp' = "SUB_OP"
        /\ steps' = steps + 1)
           => /\ err' = NoErr
              /\ ExecStack' = Append(Front(prevStack), Elem(TInt, 0))
C32_Dup == [][C32_DupStep]_vars
\* `-3 dup -` run on an empty stack has left 0
C32_Witness ==
    /\ lastOp = "SUB_OP"
    /\ prevStack = << Elem(TInt, -3), Elem(TInt, -3) >>
    /\ ExecStack = << Elem(TInt, 0) >>
    /\ err = NoErr


\* C33: Not replaces a boolean on top by its negation and an int n on top
\* by -n, reporting no error in either case.
C33_Not ==
    (/\ lastOp = "NOT_OP"
     /\ prevStack # <<>>
     /\ Operand1.Type \in {TBool, TInt})
        => /\ err = NoErr
           /\ ExecStack = Append(Front(prevStack),
                  IF Operand1.Type = TBool
                  THEN Elem(TBool, ~Operand1.Value)
                  ELSE Elem(TInt, 0 - Operand1.Value))
\* the int -3 has become 3
C33_Witness ==
    /\ lastOp = "NOT_OP"
    /\ prevStack # <<>>
    /\ Operand1 = Elem(TInt, -3)
    /\ Top(ExecStack) = Elem(TInt, 3)
    /\ err = NoErr


\* C34: a two-operand operator that fails after its first pop (the second
\* pop underflows, the kinds mismatch, a variable is undeclared, the Mod
\* divisor is zero) leaves the stack without the items it popped and
\* pushes nothing; the items below are as they were.
C34_PoppedNotRestored ==
    (/\ lastOp \in NeedsTwo
     /\ Len(prevStack) >= 1
     /\ err \notin {NoErr, Panicked})
        => ExecStack = SubSeq(prevStack, 1, Len(prevStack) - 2)
\* two operands of kinds an operator refuses, over a third item
C34_Witness ==
    /\ lastOp \in NeedsTwo
    /\ Len(prevStack) = 3
    /\ err = TypeMismatch
    /\ ExecStack = << prevStack[1] >>


\* C35: ExecuteProgram leaves the stack as it is when it is entered and
\* when its tokens are exhausted; without strict mode this end is a
\* success whatever the stack holds, a Pop made after it returns the top
\* item the run left, and the next ExecuteProgram starts from that stack.
C35_StackKeptStep ==
    /\ lastOp' = "ExecuteProgram" /\ pc' = "running" /\ pc # "running"
           => ExecStack' = ExecStack /\ VariableMap' = VariableMap
    /\ lastOp' = "END" /\ pc = "running" =>
           /\ ExecStack' = ExecStack
           /\ ~StrictMode => err' = NoErr /\ pc' = "returned"
    /\ (/\ pc = "returned" /\ lastOp = "END" /\ err = NoErr
        /\ lastOp' = "Pop" /\ steps' = steps + 1)
           => IF ExecStack = <<>> THEN err' = StackUnderflow
              ELSE err' = NoErr /\ ExecStack' = Front(ExecStack)
C35_StackKept == [][C35_StackKeptStep]_vars
\* a run without strict mode has ended in success with two items left
C35_Witness ==
    /\ pc = "returned"
    /\ lastOp = "END"
    /\ ~StrictMode
    /\ err = NoErr
    /\ steps >= 1
    /\ Len(ExecStack) >= 2


\* A table entry of a value kind that holds a value of that kind
WellKinded(var) ==
    CASE var.Type = TInt -> var.Value \in Int
      [] var.Type = TFloat -> var.Value \in Int
      [] var.Type = TString -> var.Value \in STRING /\ var.Value # Nil
      [] var.Type = TBool -> var.Value \in BOOLEAN
      [] OTHER -> FALSE

\* C36: whenever Tokenize has taken the unit after a `/name` without
\* failing, every declared variable of its table has kind int, float, text
\* or bool and a value of that kind.
C36_TableWellKinded ==
    (pc = "lexing" /\ state = StateNormal) =>
        \A n \in DOMAIN variables \ {""} : WellKinded(variables[n])


\* C37: a unit adds a key to the table only if it is the declaration
\* `/name` of that key, so every key of a successfully lexed table was
\* declared in the text; a `const` without a declaration before it adds
\* none.
C37_KeysStep ==
    (pc = "lexing" /\ pc' = "lexing" /\ steps' = steps + 1) =>
        \A n \in DOMAIN variables' \ DOMAIN variables : lastOp' = "/" \o n
C37_KeysDeclared == [][C37_KeysStep]_vars


\* The operator vocabulary: each surface token with its operator code
Vocabulary ==
    { <<"+", "ADD_OP">>, <<"-", "SUB_OP">>, <<"*", "MUL_OP">>,
      <<"/", "DIV_OP">>, <<"%", "MOD_OP">>, <<"^", "EXP_OP">>,
      <<"++", "INC_OP">>, <<"--", "DEC_OP">>, <<"swap", "SWAP_OP">>,
      <<"dup", "DUP_OP">>, <<"drop", "DROP_OP">>, <<"dump", "DUMP_OP">>,
      <<"print", "PRINT_OP">>, <<"rot", "ROT_OP">>, <<"&&", "AND_OP">>,
      <<"||", "OR_OP">>, <<"!", "NOT_OP">>, <<"==", "EQUAL_OP">>,
      <<"!=", "NOT_EQUAL_OP">>, <<"===", "EQUAL_TYP_OP">>,
      <<">", "GT_THAN_OP">>, <<"<", "LS_THAN_OP">>, <<">=", "GT_THAN_EQ_OP">>,
      <<"<=", "LS_THAN_EQ_OP">>, <<"=", "VAR_ASSIGN_OP">> }

\* C38: a unit that Tokenize turns into an Operator token is a token of
\* the vocabulary and the token carries that unit's own code; and a unit
\* of the normal state that is no literal, declaration, usage, keyword or
\* operator (and no declared name) fails with InvalidToken.
C38_OperatorStep ==
    /\ (/\ pc = "lexing" /\ pc' = "lexing" /\ steps' = steps + 1
        /\ Len(tokens') = Len(tokens) + 1
        /\ Top(tokens').Type = TOperator)
           => <<lastOp', Top(tokens').Value>> \in Vocabulary
    /\ (/\ pc = "lexing" /\ steps' = steps + 1
        /\ state = StateNormal
        /\ ~Exists(variables, lastOp')
        /\ \E u \in NoRuleUnits : lastOp' = Join(u))
           => err' = InvalidToken
C38_Operators == [][C38_OperatorStep]_vars


\* The token at the head of the program has a result the bounds leave out
OutOfWindow ==
    /\ pc = "running"
    /\ program # <<>>
    /\ Exec(Head(program), ExecStack, VariableMap).err = Unmodelled

\* One step of a run: the program shrinks by its head token only, a token
\* that returns an error ends the run, and a run that has ended changes
\* the stack, the table and the rest of the program no more
C39_RunStep ==
    /\ (pc = "running" /\ program' # program) =>
           /\ program # <<>>
           /\ program' = Tail(program)
           /\ err' # NoErr => pc' \in {"returned", "panicked"}
    /\ pc \in {"returned", "panicked"} =>
           UNCHANGED <<ExecStack, VariableMap, program, err, pc>>

\* C39: ExecuteProgram on the tokens of a program always comes to its end,
\* taking the tokens one at a time in their order; once a token has
\* returned an error no later token is executed, and the stack and the
\* table stay as that failure left them.
C39_Terminates ==
    /\ [][C39_RunStep]_vars
    /\ [](pc \in {"running", "returned", "panicked"} =>
             \E k \in 0..Len(tokens) : program = SubSeq(tokens, k + 1, Len(tokens)))
    /\ (pc = "running") ~> (pc \in {"returned", "panicked"} \/ OutOfWindow)
\* `2 ++ +` has failed at its last token
C39_Witness ==
    /\ pc = "returned"
    /\ err = StackUnderflow
    /\ lastOp = "ADD_OP"
    /\ Len(tokens) = 3
    /\ program = <<>>

=============================================================================
